---- MODULE Spec2Model ----
(***************************************************************************)
(* Model of @dhmk/zustand-lens (src/src/core.ts): createLens, lens,        *)
(* withLenses (findLensAndCreate) and the atomic middleware, on top of a   *)
(* zustand vanilla store.                                                  *)
(*                                                                         *)
(* JavaScript values are tagged records:                                   *)
(*   [t |-> "p", v |-> n]             a primitive (number)                 *)
(*   [t |-> "u"]                      undefined                            *)
(*   [t |-> "o", id |-> n, f |-> fn]  a plain object; f maps its own keys  *)
(*                                    to values; id is its allocation      *)
(*                                    stamp (reference identity)           *)
(*   [t |-> "m", pp |-> k, setter |-> k]  the object stored under the      *)
(*                                    [meta] symbol (key "meta")           *)
(*   [t |-> "l", init |-> node]       a lens marker (definition tree only) *)
(* Every object allocation takes a fresh stamp; the code only ever         *)
(* compares an old object with the object that replaces it at the same     *)
(* place, so the stamp decides Object.is.                                  *)
(***************************************************************************)
EXTENDS Integers, Sequences, FiniteSets, Bags, TLC

\* ------------------------------------------------------------------ bounds
MaxOps == 3       \* top-level calls (writes, atomic enter/exit) per behaviour
MaxFrames == 2    \* nesting depth of ctx.atomic(fn) calls made by user code

\* ------------------------------------------------------------------ values
Prim(n) == [t |-> "p", v |-> n]
Undef == [t |-> "u"]
Obj(id, f) == [t |-> "o", id |-> id, f |-> f]
MetaVal(pp, setter) == [t |-> "m", pp |-> pp, setter |-> setter]
LensMarker(init) == [t |-> "l", init |-> init]
\* an array with identity id and elements f, a map from "0", "1", ..
Arr(id, f) == [t |-> "a", id |-> id, f |-> f]
\* a function that is not a lens marker, and an instance of a class with
\* fields f (isPlainObject is false for both)
Fn(id) == [t |-> "f", id |-> id]
Instance(id, f) == [t |-> "i", id |-> id, f |-> f]
EmptyF == [k \in {} |-> Undef]

MetaKey == "meta"

\* the keys that are symbols: [meta] and a symbol of the user's (Symbol())
SymKey == "symbol"
SymbolKeys == {MetaKey, SymKey}

\* replace argument of a setter: undefined, false or true
RU == "undefined"
RF == "false"
RT == "true"

\* @dhmk/utils isPlainObject
isPlainObject(x) == x.t = "o"

\* Object.is
ObjectIs(a, b) ==
  /\ a.t = b.t
  /\ CASE a.t = "o" -> a.id = b.id
       [] a.t = "p" -> a.v = b.v
       [] a.t = "u" -> TRUE
       [] OTHER -> a = b

\* own enumerable properties copied by an object spread / Object.assign source
Props(x) == IF x.t = "o" THEN x.f ELSE EmptyF

\* { ...a, ...b } on property maps
Assign(fa, fb) ==
  [k \in (DOMAIN fa) \cup (DOMAIN fb) |-> IF k \in DOMAIN fb THEN fb[k] ELSE fa[k]]

\* x[k] with x?.[k] semantics
Field(x, k) == IF x.t = "o" /\ k \in DOMAIN x.f THEN x.f[k] ELSE Undef

\* @dhmk/utils getIn
RECURSIVE getIn(_, _)
getIn(x, path) ==
  IF path = <<>> THEN x ELSE getIn(Field(x, Head(path)), Tail(path))

\* a bug: a setIn that writes into the objects it is given
RECURSIVE setInPlace(_, _, _, _)
setInPlace(x, path, v, id) ==
  IF path = <<>> THEN v
  ELSE Obj(IF x.t = "o" THEN x.id ELSE id,
           Assign(Props(x),
                  [k \in {Head(path)} |-> setInPlace(Field(x, Head(path)), Tail(path), v, id)]))

\* @dhmk/utils setIn: copy-on-write along path; objects made now get stamp id
RECURSIVE setIn(_, _, _, _)
setIn(x, path, v, id) ==
  IF path = <<>> THEN v
  ELSE Obj(id, Assign(Props(x),
                      [k \in {Head(path)} |-> setIn(Field(x, Head(path)), Tail(path), v, id)]))

\* @dhmk/utils shallowEqual: same string keys, Object.is on every one of them
StrKeys(f) == (DOMAIN f) \ SymbolKeys
shallowEqual(a, b) ==
  \/ ObjectIs(a, b)
  \/ /\ a.t = "o" /\ b.t = "o"
     /\ StrKeys(a.f) = StrKeys(b.f)
     /\ \A k \in StrKeys(a.f) : ObjectIs(a.f[k], b.f[k])

\* structural (deep) equality of contents, blind to reference identity
RECURSIVE SameContent(_, _)
SameContent(a, b) ==
  IF a.t = "o" /\ b.t = "o"
  THEN /\ DOMAIN a.f = DOMAIN b.f
       /\ \A k \in DOMAIN a.f : SameContent(a.f[k], b.f[k])
  ELSE a.t = b.t /\ a = b

IsPrefix(p, q) == Len(p) <= Len(q) /\ SubSeq(q, 1, Len(p)) = p

\* ------------------------------------------------------------------ drafts
\* if (x): objects and non-zero numbers are truthy
Truthy(v) == v.t = "o" \/ (v.t = "p" /\ v.v # 0)

\* immer's produce(base, recipe) hands recipe a draft of base: a proxy, never
\* identical to a committed object, on which reads give drafts of the nested
\* objects. A draft is written here as the tree it stands for; an object not
\* written to so far carries the stamp -1 - id of the committed object it
\* stands for, an object written to carries the stamp of the copy made for it.
RECURSIVE toDraft(_)
toDraft(x) ==
  IF x.t = "o" THEN Obj(-1 - x.id, [k \in DOMAIN x.f |-> toDraft(x.f[k])]) ELSE x

\* what produce returns once recipe returned nothing: the copies for the
\* objects written to, the committed objects for the others
RECURSIVE finalize(_)
finalize(d) ==
  IF d.t = "o"
  THEN Obj(IF d.id < 0 THEN -1 - d.id ELSE d.id, [k \in DOMAIN d.f |-> finalize(d.f[k])])
  ELSE d

\* the draft after an assignment that changed it (immer: prepareCopy, markChanged)
draftTouched(d, f, id) == Obj(IF d.id < 0 THEN id ELSE d.id, f)

\* a bug: Object.assign that leaves the draft as it was
draftAssignNothing(d, src, id) == d

\* Object.assign(draft, src): the set trap ignores a property assigned the
\* value it has, any other assignment makes the draft a modified one
draftAssign(d, src, id) ==
  IF \A k \in DOMAIN src : k \in DOMAIN Props(d) /\ ObjectIs(d.f[k], src[k])
  THEN d
  ELSE draftTouched(d, Assign(Props(d), src), id)

\* the draft x after the draft it gives at path became v: a write to a nested
\* draft makes every draft above it a modified one
RECURSIVE draftPut(_, _, _, _)
draftPut(x, path, v, id) ==
  IF path = <<>> THEN v
  ELSE IF getIn(x, path) = v THEN x
  ELSE draftTouched(x, Assign(Props(x),
         [k \in {Head(path)} |-> draftPut(Field(x, Head(path)), Tail(path), v, id)]), id)

\* ------------------------------------------------------------------ inputs
\* The definition tree handed to withLenses, after README.md "Understanding
\* order of invocation" and the tests of index.test.ts:
\*   { sub: lens(() => ({ id, name, nested: lens(() => ({ id })) })),
\*     deep: { box: { leaf: lens(() => ({ value })) }, pad: { value } },
\*     flag }
\* hk gives, per scope (a rootPath), the [meta] object placed there, if any.
HookKinds == {"none", "log", "after"}
NoMeta == MetaVal("none", "none")
WithMeta(f, mv) == IF mv = NoMeta THEN f ELSE Assign(f, [k \in {MetaKey} |-> mv])

PlainNode(f) == Obj(0, f)

DefTree(hk) ==
  PlainNode(WithMeta(
    [k \in {"sub", "deep", "flag"} |->
      CASE k = "sub" ->
             LensMarker(PlainNode(WithMeta(
               [j \in {"id", "name", "nested"} |->
                  IF j = "nested"
                  THEN LensMarker(PlainNode(WithMeta([i \in {"id"} |-> Prim(1)],
                                                     hk[<<"sub", "nested">>])))
                  ELSE Prim(1)],
               hk[<<"sub">>])))
        [] k = "deep" ->
             PlainNode([j \in {"box", "pad"} |->
               IF j = "box"
               THEN PlainNode([i \in {"leaf"} |->
                      LensMarker(PlainNode(WithMeta([h \in {"value"} |-> Prim(1)],
                                                    hk[<<"deep", "box", "leaf">>])))])
               ELSE PlainNode([i \in {"value"} |-> Prim(1)])])
        [] OTHER -> Prim(0)],
    hk[<<>>]))

Root == <<>>
Sub == <<"sub">>
Nested == <<"sub", "nested">>
Leaf == <<"deep", "box", "leaf">>
Scopes == {Root, Sub, Nested, Leaf}

\* hook configurations: no [meta] at all; the README's logging setter and
\* postprocess on root, sub and nested; the root setter of the test
\* "makes `setter`s atomic" (set(); if (!get().flag) get().test()); the
\* postprocess of the test "applies `postprocess` function" on leaf; the
\* postprocess of the test "immer@10 bug" on sub; the watchers of the test
\* "watch" on sub and nested; the combined watchers of the test
\* "combineWatchers" on the root
MetaOf(cfg, s) ==
  CASE cfg = "readme" /\ s \in {Root, Sub, Nested} -> MetaVal("log", "log")
    [] cfg = "join" /\ s = Leaf -> MetaVal("join", "none")
    [] cfg = "watch" /\ s \in {Sub, Nested} -> MetaVal("none", "watch")
    [] cfg = "combine" /\ s = Root -> MetaVal("none", "combine")
    [] cfg = "quiet" /\ s = Sub -> MetaVal("log", "none")
    [] cfg = "flagger" /\ s = Root -> MetaVal("none", "after")
    [] cfg = "throws" /\ s = Sub -> MetaVal("none", "throws")
    [] cfg = "rootthrows" /\ s = Root -> MetaVal("none", "throws")
    [] cfg = "late" /\ s = Nested -> MetaVal("none", "late")
    [] cfg = "twice" /\ s = Sub -> MetaVal("none", "twice")
    [] cfg = "roottwice" /\ s = Root -> MetaVal("none", "twice")
    [] cfg = "bothtwice" /\ s \in {Root, Sub} -> MetaVal("none", "twice")
    [] cfg = "skip" /\ s = Sub -> MetaVal("none", "skip")
    [] cfg = "rootskip" /\ s = Root -> MetaVal("none", "skip")
    [] cfg = "nestedskip" /\ s = Nested -> MetaVal("none", "skip")
    [] OTHER -> NoMeta
HookConfigs == {"plain", "readme", "flagger"}
HooksOf(cfg) == [s \in Scopes |-> MetaOf(cfg, s)]

\* ------------------------------------------------------------------ walker
isLens(x) == x.t = "l"

\* a bug: a walker that does not walk the value an initializer returned
RECURSIVE findLensShallow(_)
findLensShallow(x) ==
  IF isPlainObject(x)
  THEN Obj(0, [k \in DOMAIN x.f |->
                IF k \in SymbolKeys THEN x.f[k]
                ELSE IF isLens(x.f[k]) THEN x.f[k].init ELSE findLensShallow(x.f[k])])
  ELSE x

\* a bug: a walker that walks arrays as it walks plain objects
RECURSIVE findLensInArrays(_)
findLensInArrays(x) ==
  IF x.t \in {"o", "a"}
  THEN [t |-> x.t, id |-> 0, f |-> [k \in DOMAIN x.f |->
         IF k \in SymbolKeys THEN x.f[k]
         ELSE findLensInArrays(IF isLens(x.f[k]) THEN x.f[k].init ELSE x.f[k])]]
  ELSE x

\* a bug: a walker that treats symbol keys as it treats the others
RECURSIVE findLensEverywhere(_)
findLensEverywhere(x) ==
  IF isPlainObject(x)
  THEN Obj(0, [k \in DOMAIN x.f |->
                findLensEverywhere(IF isLens(x.f[k]) THEN x.f[k].init ELSE x.f[k])])
  ELSE x

\* findLensAndCreate, the value it returns: every marker under a string key
\* of a plain object is replaced by what its initializer returns, walked
\* in turn; symbol keys are copied; anything not a plain object is returned
\* as it is.
RECURSIVE findLensAndCreate(_)
findLensAndCreate(x) ==
  IF isPlainObject(x)
  THEN Obj(0, [k \in DOMAIN x.f |->
                IF k \in SymbolKeys THEN x.f[k]
                ELSE findLensAndCreate(IF isLens(x.f[k]) THEN x.f[k].init ELSE x.f[k])])
  ELSE x

\* findLensAndCreate, the contexts it makes: one per marker it realizes, with
\* rootPath, relativePath and the enclosing scope whose set/get it is given
\* (parentCtx.set / parentCtx.get).
RECURSIVE lensContexts(_, _, _, _)
lensContexts(x, rootPath, relativePath, parent) ==
  IF isPlainObject(x)
  THEN UNION { IF isLens(x.f[k])
               THEN {[rootPath |-> Append(rootPath, k),
                      relativePath |-> Append(relativePath, k),
                      parent |-> parent]}
                    \cup lensContexts(x.f[k].init, Append(rootPath, k), <<>>,
                                      Append(rootPath, k))
               ELSE lensContexts(x.f[k], Append(rootPath, k),
                                 Append(relativePath, k), parent)
             : k \in (DOMAIN x.f) \ SymbolKeys }
  ELSE {}

Contexts == lensContexts(DefTree(HooksOf("plain")), <<>>, <<>>, <<>>)
Ctx(s) == CHOOSE c \in Contexts : c.rootPath = s
ParentOf(s) == Ctx(s).parent
RelativePath(s) == Ctx(s).relativePath

\* the setter hook a scope keeps in its closure variable setterFn
SetterFnOf(tree, s) ==
  LET mv == Field(getIn(tree, s), MetaKey)
  IN IF mv.t = "m" THEN mv.setter ELSE "none"

\* withLensesImpl, the state it returns for a definition tree
withLenses(x) == findLensAndCreate(x)

\* findLensAndCreate, the initializer calls it makes (v(set, parentCtx.get,
\* parentCtx.api, lensCtx)): a bag of the rootPaths of the markers called
RECURSIVE BagSum(_)
BagSum(S) ==
  IF S = {} THEN EmptyBag
  ELSE LET e == CHOOSE e \in S : TRUE IN e[2] (+) BagSum(S \ {e})

RECURSIVE initCalls(_, _)
initCalls(x, rootPath) ==
  IF isPlainObject(x)
  THEN BagSum({ <<k, IF isLens(x.f[k])
                     THEN SetToBag({Append(rootPath, k)})
                          (+) initCalls(x.f[k].init, Append(rootPath, k))
                     ELSE initCalls(x.f[k], Append(rootPath, k))>>
                : k \in (DOMAIN x.f) \ SymbolKeys })
  ELSE EmptyBag

\* Functions are values named after the closure that made them: fn says which
\* closure, of the function it closes over, path the path it was given.
Closure(fn, of, path) == [fn |-> fn, of |-> of, path |-> path]
NoFn == [fn |-> "undefined"]
StoreSet == [fn |-> "store.set"]
StoreGet == [fn |-> "store.get"]
StoreApi == [fn |-> "store.api"]

\* createLens(set, get, path), the pair it returns
createLens(set, get, path) ==
  [set |-> Closure("_set", set, path), get |-> Closure("_get", get, path)]

\* the set and get of the n-th store made with create(...)
StoreSetOf(n) == [fn |-> "store.set", store |-> n]
StoreGetOf(n) == [fn |-> "store.get", store |-> n]

\* withLensesImpl in the n-th store: the context of the root
RootCtxOf(n) ==
  [set |-> Closure("_set", Closure("setFn", StoreSetOf(n), <<>>), <<"undefined">>),
   get |-> StoreGetOf(n), api |-> StoreApi, rootPath |-> <<>>, relativePath |-> <<>>]

\* a bug: a marker that keeps the pair createLens made when it was first
\* realized (under the key a of the first store) and hands it out ever after
lensRemembers(set, get, api, ctx) ==
  LET first == createLens(Closure("set", RootCtxOf(1).set, <<"a">>), StoreGetOf(1), <<"a">>)
  IN [set |-> first.set, get |-> first.get, api |-> api,
      ctx |-> [ctx EXCEPT !.set = first.set, !.get = first.get]]

\* a bug: lens that leaves ctx.set and ctx.get as it found them
lensKeepsCtx(set, get, api, ctx) ==
  [set |-> createLens(set, get, ctx.relativePath).set,
   get |-> createLens(set, get, ctx.relativePath).get,
   api |-> api, ctx |-> ctx]

\* lens(fn), the function self: the call fn(_set, _get, api, ctx) it makes
lens(set, get, api, ctx) ==
  [set |-> createLens(set, get, ctx.relativePath).set,
   get |-> createLens(set, get, ctx.relativePath).get,
   api |-> api,
   ctx |-> [ctx EXCEPT !.set = createLens(set, get, ctx.relativePath).set,
                       !.get = createLens(set, get, ctx.relativePath).get]]

Context(set, get, api, rootPath, relativePath) ==
  [set |-> set, get |-> get, api |-> api, rootPath |-> rootPath, relativePath |-> relativePath]

\* withLensesImpl: the context of the root; its set is the pathless lens over
\* setFn, its get the store's get
RootCtx ==
  Context(Closure("_set", Closure("setFn", StoreSet, <<>>), <<"undefined">>),
          StoreGet, StoreApi, <<>>, <<>>)

\* findLensAndCreate, the calls of lens initializers it makes, each with the
\* arguments and the context the initializer receives
RECURSIVE lensCalls(_, _)
lensCalls(x, parentCtx) ==
  IF isPlainObject(x)
  THEN UNION {
         LET v == x.f[k]
             lensCtx == Context(NoFn, NoFn, parentCtx.api,
                                Append(parentCtx.rootPath, k),
                                Append(parentCtx.relativePath, k))
             set == Closure("set", parentCtx.set, lensCtx.rootPath)
             call == lens(set, parentCtx.get, parentCtx.api, lensCtx)
         IN IF isLens(v)
            THEN {call} \cup
                 lensCalls(v.init, Context(call.ctx.set, call.ctx.get, parentCtx.api,
                                           Append(parentCtx.rootPath, k), <<>>))
            ELSE lensCalls(v, Context(parentCtx.set, parentCtx.get, parentCtx.api,
                                      Append(parentCtx.rootPath, k),
                                      Append(parentCtx.relativePath, k)))
         : k \in (DOMAIN x.f) \ SymbolKeys }
  ELSE {}

\* Definition trees handed to withLenses: plain objects with the keys a or
\* a and b, whose values are a number, a plain object or a lens marker, three
\* levels deep.
NodesOver(S) == UNION {{PlainNode(f) : f \in [ks -> S]} : ks \in {{"a"}, {"a", "b"}}}
MarkersOver(S) == {LensMarker(n) : n \in NodesOver(S)}
Level0 == {Prim(1)}
Level1 == Level0 \cup NodesOver(Level0) \cup MarkersOver(Level0)
Level2 == Level0 \cup NodesOver(Level1) \cup MarkersOver(Level1)
DefTrees == NodesOver(Level2)

\* ------------------------------------------------------------------ writes
\* A write is set(partial, replace, ...args) through the setter of a scope.
\* The partial is an object literal (kind "obj", own properties f) or a
\* function of the old scoped value (kind "fn").
ObjPartial(f) == [kind |-> "obj", f |-> f, name |-> "", key |-> ""]
FnPartial(name, key) == [kind |-> "fn", f |-> EmptyF, name |-> name, key |-> key]
\* a partial that is a primitive or undefined, and one that is an array literal
ValPartial(v) == [kind |-> "val", f |-> EmptyF, name |-> "", key |-> "", v |-> v]
ArrPartial(f) == [kind |-> "arr", f |-> f, name |-> "", key |-> ""]
Write(s, ps, replace, args) == [scope |-> s, ps |-> ps, replace |-> replace, args |-> args]

Bump(v) == IF v.t = "p" THEN Prim((v.v % 2) + 1) ELSE Prim(1)

\* a + b of JavaScript on the model's values
Plus(a, b) == IF a.t = "p" /\ b.t = "p" THEN Prim(a.v + b.v) ELSE [t |-> "nan"]

\* the user functions used as partials:
\*   bump: old => ({ [key]: old[key] % 2 + 1 })     same: old => ({ [key]: old[key] })
\*   inc:  old => ({ [key]: old[key] + 1 })         mutate: draft => { draft[key] = 2 }
\*   inside: old => ({ [key]: { ...old[key], id: old[key].id % 2 + 1 } })
\*   keep: old => old       succ: old => old % 2 + 1       void: old => {}
UserFn(name, key, old, id) ==
  CASE name = "bump" -> Obj(id, [k \in {key} |-> Bump(Field(old, key))])
    [] name = "same" -> Obj(id, [k \in {key} |-> Field(old, key)])
    [] name = "inc" -> Obj(id, [k \in {key} |-> Plus(Field(old, key), Prim(1))])
    [] name = "keep" -> old
    [] name = "succ" -> Bump(old)
    [] name = "inside" ->
         Obj(id, [k \in {key} |->
                   Obj(id, Assign(Props(Field(old, key)),
                                  [j \in {"id"} |-> Bump(Field(Field(old, key), "id"))]))])
    [] OTHER -> Undef

\* the value the partial was called with, after the call: "mutate" writes
\* to the draft it is given, the other partials write to nothing
AfterPartial(ps, old, id) ==
  IF ps.kind = "fn" /\ ps.name = "mutate"
  THEN draftAssign(old, [k \in {ps.key} |-> Prim(2)], id)
  ELSE old

\* a bug: the function is never called, it is spread like an object
ApplyPartialNoCall(ps, old, id) == Obj(id, ps.f)

\* typeof partial === "function" ? partial(ourOldValue) : partial
ApplyPartial(ps, old, id) ==
  CASE ps.kind = "fn" -> UserFn(ps.name, ps.key, old, id)
    [] ps.kind = "val" -> ps.v
    [] ps.kind = "arr" -> Arr(id, ps.f)
    [] OTHER -> Obj(id, ps.f)

\* a bug: isPlain is not looked at, only replace decides
replaceDecides(replace, isPlain, ourOldValue, ourTmpValue, id) ==
  IF replace = RT
  THEN ourTmpValue
  ELSE Obj(id, Assign(Props(ourOldValue), Props(ourTmpValue)))

\* a bug: replace is ignored, the partial is always merged
mergeAlways(replace, isPlain, ourOldValue, ourTmpValue, id) ==
  IF ~isPlain THEN ourTmpValue
  ELSE Obj(id, Assign(Props(ourOldValue), Props(ourTmpValue)))

\* replace || !isPlain ? ourTmpValue : { ...ourOldValue, ...ourTmpValue }
tmpValue2(replace, isPlain, ourOldValue, ourTmpValue, id) ==
  IF replace = RT \/ ~isPlain
  THEN ourTmpValue
  ELSE Obj(id, Assign(Props(ourOldValue), Props(ourTmpValue)))

\* a bug: the values are compared by reference only
isSameByReference(isPlain, ourOldValue, ourNextValue) ==
  ObjectIs(ourOldValue, ourNextValue)

\* isPlain ? shallowEqual(ourOldValue, ourNextValue) : Object.is(...)
isSameValue(isPlain, ourOldValue, ourNextValue) ==
  IF isPlain
  THEN shallowEqual(ourOldValue, ourNextValue)
  ELSE ObjectIs(ourOldValue, ourNextValue)

\* a deep clone: every object of x allocated anew
RECURSIVE deepClone(_, _)
deepClone(x, id) ==
  IF x.t = "o" THEN Obj(id, [k \in DOMAIN x.f |-> deepClone(x.f[k], id)]) ELSE x

\* a bug: the next value is spliced into a deep clone of the parent value
resultOnClone(isSame, normPath, parentValue, path, ourNextValue, id) ==
  IF isSame THEN parentValue
  ELSE IF normPath THEN setIn(deepClone(parentValue, id), path, ourNextValue, id)
  ELSE ourNextValue

\* isSame ? parentValue : normPath ? setIn(parentValue, normPath, ourNextValue)
\*                                 : ourNextValue
resultValue(isSame, normPath, parentValue, path, ourNextValue, id) ==
  IF isSame THEN parentValue
  ELSE IF normPath THEN setIn(parentValue, path, ourNextValue, id)
  ELSE ourNextValue

\* events of the call in progress
Ev(e, s, replace, args) == [e |-> e, s |-> s, replace |-> replace, args |-> args]

\* a bug: every lens is handed the store's get, not the get of the lens around it
scopedGetFromStore(s, G) == IF s = Root THEN G ELSE getIn(G, RelativePath(s))

\* the getter of scope s, given what the store's get() returns
RECURSIVE scopedGet(_, _)
scopedGet(s, G) ==
  IF s = Root THEN G ELSE getIn(scopedGet(ParentOf(s), G), RelativePath(s))

\* the scope below s on the way to the writing scope t
ChildOnChain(s, t) ==
  CHOOSE c \in Scopes \ {Root} : ParentOf(c) = s /\ IsPrefix(c, t)

\* a bug: a postprocess whose result is lost
PostprocessNothing(kind, state, prevState, args) == Undef

\* [meta].postprocess(state, prevState, ...args): what it returns
\*   "log":  nothing (README.md)
\*   "join": { value: prevState.value + state.value } (index.test.ts)
Postprocess(kind, state, prevState, args) ==
  IF kind = "join"
  THEN Obj(0, [k \in {"value"} |-> Plus(Field(prevState, "value"), Field(state, "value"))])
  ELSE Undef

\* a call of [meta].postprocess, as the trace records it
PPEv(s, replace, args, state, prevState) ==
  [e |-> "postprocess", s |-> s, replace |-> replace, args |-> args,
   state |-> state, prevState |-> prevState]

\* the branch for plain values, after postprocess returned pp:
\*   ourNextValue = isPlain ? { ...ourTmpValue2, ...postprocess?.(...) } : ourTmpValue2
\*   isSame ? parentValue : normPath ? setIn(parentValue, normPath, ourNextValue) : ourNextValue
updaterResult(normPath, parentValue, path, id, isPlain, ourOldValue, ev, ourNextValue) ==
  [val |-> resultValue(isSameValue(isPlain, ourOldValue, ourNextValue), normPath,
                       parentValue, path, ourNextValue, id),
   ev |-> ev,
   draft |-> parentValue]

\* the branch for plain values, from ourTmpValue2 on: postprocess is looked up
\* on ourTmpValue2[meta] and called with (ourTmpValue2, ourOldValue, ...args)
updaterPostprocess(s, w, normPath, parentValue, path, id, replace, isPlain, ourOldValue, ev, ourTmpValue2) ==
  LET mv == Field(ourTmpValue2, MetaKey)
      hasPP == isPlain /\ mv.t = "m" /\ mv.pp # "none"
  IN updaterResult(normPath, parentValue, path, id, isPlain, ourOldValue,
       IF hasPP THEN Append(ev, PPEv(s, replace, w.args, ourTmpValue2, ourOldValue)) ELSE ev,
       IF isPlain
       THEN Obj(id, Assign(Props(ourTmpValue2),
                           Props(IF hasPP
                                 THEN Postprocess(mv.pp, ourTmpValue2, ourOldValue, w.args)
                                 ELSE Undef)))
       ELSE ourTmpValue2)

\* the draft branch, after postprocess returned dpp:
\*   if (pp) Object.assign(ourOldValue, pp); return undefined
draftResult(parentValue, path, id, ev, draft, dpp) ==
  [val |-> Undef,
   ev |-> ev,
   draft |-> draftPut(parentValue, path,
                      IF Truthy(dpp) THEN draftAssign(draft, Props(dpp), id) ELSE draft, id)]

\* the draft branch, from the draft the partial was assigned to on:
\* postprocess is looked up on the draft and called with (draft, ourOldValue2, ...args)
draftPostprocess(s, w, parentValue, path, id, replace, ourOldValue2, ev, draft) ==
  LET dmv == Field(draft, MetaKey)
      dhasPP == dmv.t = "m" /\ dmv.pp # "none"
  IN draftResult(parentValue, path, id,
       IF dhasPP THEN Append(ev, PPEv(s, replace, w.args, draft, ourOldValue2)) ELSE ev,
       draft,
       IF dhasPP THEN Postprocess(dmv.pp, draft, ourOldValue2, w.args) ELSE Undef)

\* the updater from the immer detection on, inner being what evaluating the
\* partial gave (for the lens written through) or what the updater of the
\* lens below returned (val), the postprocess calls made so far (ev) and the
\* draft ourOldValue as they left it (draft):
\*   isDraft = isPlain && ourOldValue !== ourOldValue2
\*   if (isDraft) { if (ourTmpValue) Object.assign(ourOldValue, ourTmpValue); ... }
\*   ourTmpValue2 = replace || !isPlain ? ourTmpValue : { ...ourOldValue, ...ourTmpValue }
updaterBranch(s, w, normPath, parentValue, path, id, replace, ourOldValue, ourOldValue2, inner) ==
  IF isPlainObject(ourOldValue) /\ ~ObjectIs(ourOldValue, ourOldValue2)
  THEN draftPostprocess(s, w, parentValue, path, id, replace, ourOldValue2, inner.ev,
         IF Truthy(inner.val)
         THEN draftAssign(inner.draft, Props(inner.val), id)
         ELSE inner.draft)
  ELSE updaterPostprocess(s, w, normPath, parentValue, path, id, replace,
         isPlainObject(ourOldValue), ourOldValue, inner.ev,
         tmpValue2(replace, isPlainObject(ourOldValue), ourOldValue, inner.val, id))

\* createLens._set, the updater function it passes to set, for scope s in
\* write w: parentValue is the value the parent's set hands it, G what the
\* store's get() returns. The partial is evaluated by the updater of the lens
\* written through; the updaters above it receive the updater below them as
\* their partial. id is the stamp of the objects it allocates. Result: the
\* value returned (val), the postprocess calls made, in order (ev), and the
\* draft as it was left (draft).
RECURSIVE updater(_, _, _, _, _)
RECURSIVE updaterFrom(_, _, _, _, _, _)
updaterFrom(s, w, parentValue, G, id, ourOldValue) ==
  updaterBranch(s, w, s # Root, parentValue, IF s # Root THEN RelativePath(s) ELSE <<>>, id,
                IF s = w.scope THEN w.replace ELSE RF, ourOldValue, scopedGet(s, G),
                IF s = w.scope
                THEN [val |-> ApplyPartial(w.ps, ourOldValue, id), ev |-> <<>>,
                      draft |-> AfterPartial(w.ps, ourOldValue, id)]
                ELSE updater(ChildOnChain(s, w.scope), w, ourOldValue, G, id))

updater(s, w, parentValue, G, id) ==
  updaterFrom(s, w, parentValue, G, id,
              IF s # Root THEN getIn(parentValue, RelativePath(s)) ELSE parentValue)

\* a bug: a lens of a chain that reads through the store's get
chainGetFromStore(G, above, normPath) == getIn(G, normPath)

\* _get of a lens of a chain, getIn(get(), normPath), get being the _get of the
\* lens above it
chainGet(G, above, normPath) == getIn(getIn(G, above), normPath)

\* the replace argument a lens of a chain works with: the caller's for the
\* lens written through, false for every lens above it (normPath ? false :
\* replace is what a lens with a path hands to its parent)
levelReplace(own, replace) == IF own THEN replace ELSE RF

\* createLens over createLens: the updater function the outermost lens of a
\* chain passes to the store's set. paths are the paths the lenses were made
\* with, outermost first; above is the path of the pair the outermost lens
\* was given; G is what the store's get() returns.
RECURSIVE chainUpdater(_, _, _, _, _, _)
chainUpdater(paths, above, w, parentValue, G, id) ==
  LET normPath == Head(paths)
      own == Tail(paths) = <<>>
      ourOldValue == getIn(parentValue, normPath)
      inner == IF own
               THEN [val |-> ApplyPartial(w.ps, ourOldValue, id), ev |-> <<>>]
               ELSE chainUpdater(Tail(paths), above \o normPath, w, ourOldValue, G, id)
      replace == levelReplace(own, w.replace)
      ourTmpValue == inner.val
      isPlain == isPlainObject(ourOldValue)
      ourOldValue2 == chainGet(G, above, normPath)
      isDraft == isPlain /\ ~ObjectIs(ourOldValue, ourOldValue2)
      ourTmpValue2 == tmpValue2(replace, isPlain, ourOldValue, ourTmpValue, id)
      mv == Field(ourTmpValue2, MetaKey)
      hasPP == isPlain /\ mv.t = "m" /\ mv.pp # "none"
      pp == IF hasPP THEN Postprocess(mv.pp, ourTmpValue2, ourOldValue, w.args) ELSE Undef
      ourNextValue == IF isPlain
                      THEN Obj(id, Assign(Props(ourTmpValue2), Props(pp)))
                      ELSE ourTmpValue2
      isSame == isSameValue(isPlain, ourOldValue, ourNextValue)
      ev == IF hasPP THEN Append(inner.ev, Ev("postprocess", above \o normPath, replace, w.args))
            ELSE inner.ev
  IN IF isDraft
     THEN [val |-> Undef, ev |-> Append(inner.ev, Ev("draft", above \o normPath, replace, w.args))]
     ELSE [val |-> resultValue(isSame, TRUE, parentValue, normPath, ourNextValue, id),
           ev |-> ev]

\* ------------------------------------------------------------------ store
\* zustand vanilla setState, the next state it stores:
\*   if (!Object.is(nextState, state))
\*     state = (replace ?? (typeof nextState !== "object" || nextState === null))
\*       ? nextState : Object.assign({}, state, nextState)
setState(state, nextState, replace, id) ==
  IF ObjectIs(nextState, state) THEN state
  ELSE IF (IF replace # RU THEN replace = RT ELSE nextState.t # "o")
       THEN nextState
       ELSE Obj(id, Assign(Props(state), Props(nextState)))

\* The program state threaded through a call:
\*   live     state of the real store        temp    state of tempStore
\*   counter  atomicImpl's counter           mw      atomic middleware installed
\*   notified subscriber notifications       nextId  next allocation stamp
\*   trace    events of the call in progress hook    setterFn of every scope
Log(m, e) == [m EXCEPT !.trace = Append(@, e)]
Fresh(m) == [m EXCEPT !.nextId = @ + 1]

\* the real store's setState(nextState, replace): stores and notifies listeners
storeSet(m, nextState, replace) ==
  IF ObjectIs(nextState, m.live) THEN m
  ELSE Log(Fresh([m EXCEPT !.live = setState(m.live, nextState, replace, m.nextId),
                          !.notified = @ + 1]),
           Ev("notify", Root, replace, <<>>))

\* a bug: _get that never looks at the shadow state
atomicGetLive(m) == m.live

\* atomicImpl._get
atomicGet(m) == IF m.counter # 0 THEN m.temp ELSE m.live
\* the get handed to withLenses
rootGet(m) == IF m.mw THEN atomicGet(m) ELSE m.live

\* a bug: counter = 1 instead of ++counter
atomicEnterFlat(m) ==
  IF m.counter = 0
  THEN Fresh([m EXCEPT !.counter = 1,
                       !.temp = setState(m.temp, m.live, RU, m.nextId)])
  ELSE [m EXCEPT !.counter = 1]

\* atomicImpl.atomic up to the call of fn
atomicEnter(m) ==
  IF m.counter + 1 = 1
  THEN Fresh([m EXCEPT !.counter = 1,
                       !.temp = setState(m.temp, m.live, RU, m.nextId)])
  ELSE [m EXCEPT !.counter = @ + 1]

\* a bug: the finally block commits whatever the counter is
atomicExitAlways(m) ==
  storeSet(Log([m EXCEPT !.counter = @ - 1], Ev("commit", Root, RU, <<>>)), m.temp, RU)

\* atomicImpl.atomic, the finally block
atomicExit(m) ==
  IF m.counter - 1 = 0
  THEN storeSet(Log([m EXCEPT !.counter = 0], Ev("commit", Root, RU, <<>>)), m.temp, RU)
  ELSE [m EXCEPT !.counter = @ - 1]

\* a bug: a scope's set that runs its setter hook outside atomic
ctxEnterStub(m) == m

\* ctx.atomic as the engine uses it around every set: atomicImpl.atomic with
\* the middleware, atomicStub without
ctxEnter(m) == IF m.mw THEN atomicEnter(m) ELSE m
ctxExit(m) == IF m.mw THEN atomicExit(m) ELSE m

\* atomicStub and atomicStubWithWarning up to the call of fn: fn is called
\* at once, after a console.warn in the second
atomicStub(m) == m
atomicStubWithWarning(m) == Log(atomicStub(m), Ev("warn", Root, RU, <<>>))

\* a bug: a lens context that keeps the silent stub of its parent
lensAtomicSilent(m) == IF m.mw THEN atomicEnter(m) ELSE atomicStub(m)

\* lensCtx.atomic up to the call of fn: the parent's atomic, or the warning
\* stub where the parent's is atomicStub
lensAtomic(m) == IF m.mw THEN atomicEnter(m) ELSE atomicStubWithWarning(m)

\* a bug: replace handed on as it was given
ReplaceOutVerbatim(s, w) == IF s = w.scope THEN w.replace ELSE RF

\* the replace argument createLens._set of scope s receives in write w, and
\* the one it hands to its set: normPath ? false : replace
ReplaceIn(s, w) == IF s = w.scope THEN w.replace ELSE RF
ReplaceOut(s, w) == IF s # Root THEN RF ELSE ReplaceIn(s, w)

\* immer's produce(state, recipe), given what recipe returned and the draft
\* it left: the value returned, or the draft's copies if it returned nothing
produce(u) == finalize(IF u.val = Undef THEN u.draft ELSE u.val)

\* the set handed to withLenses, called by the root's commit callback with
\* the updater of write w: atomicImpl._set with the atomic middleware,
\* set(produce(updater), replace) with the immer middleware, the store's
\* setState without either
rootStoreSetWith(m1, w, u) ==
  IF m1.immer
  THEN storeSet([m1 EXCEPT !.nextId = @ + 1, !.trace = @ \o u.ev], produce(u),
                ReplaceOut(Root, w))
  ELSE IF m1.mw
  THEN atomicExit([m1 EXCEPT !.temp = setState(m1.temp, u.val, ReplaceOut(Root, w),
                                               m1.nextId + 1),
                             !.nextId = @ + 2,
                             !.trace = @ \o u.ev])
  ELSE storeSet([m1 EXCEPT !.nextId = @ + 1, !.trace = @ \o u.ev], u.val,
                ReplaceOut(Root, w))

\* the state the store's set applies the updater to, and what get() returns
\* meanwhile: a draft of the state and the state under produce, the shadow
\* state inside atomic, the state otherwise
rootStoreSetIn(m1, w) ==
  rootStoreSetWith(m1, w,
    updater(Root, w,
            IF m1.immer THEN toDraft(m1.live) ELSE IF m1.mw THEN m1.temp ELSE m1.live,
            IF m1.immer THEN m1.live ELSE IF m1.mw THEN atomicGet(m1) ELSE m1.live,
            m1.nextId))

rootStoreSet(m, w) ==
  rootStoreSetIn(IF m.mw /\ ~m.immer THEN atomicEnter(m) ELSE m, w)

\* test() { set({ flag: true }) } of the root, called by the "after" setter
FlagWrite == Write(Root, ObjPartial([k \in {"flag"} |-> Prim(1)]), RU, <<>>)

\* a bug: every commit callback calls the store's set, past the enclosing lenses
commitsToStoreAlways(s) == TRUE

\* the commit callback handed to the setter hook of scope s calls the store's
\* set for the root (() => set(...args)) and the set of the enclosing scope for
\* a lens (() => parentCtx.set(...args))
commitsToStore(s) == s = Root

\* The closure variables of the watchers of helpers.ts: curr of every
\* watch(...) and initialized of combineWatchers(...). The watchers are
\*   "sub"     watch((s) => s.id, cb) as the setter hook of sub
\*   "nested"  watch((s) => s, cb) as the setter hook of sub.nested
\*   "flag", "subs"  combineWatchers(watch((s) => s.flag, cb), watch((s) => s.sub, cb))
\*                   as the setter hook of the root
WatcherIds == {"sub", "nested", "flag", "subs"}
CombinedWatchers == <<"flag", "subs">>
NoWatchers == [curr |-> [id \in WatcherIds |-> Undef], initialized |-> FALSE]
WatcherOf(s) == IF s = Sub THEN "sub" ELSE "nested"
Selector(id, state) ==
  CASE id = "sub" -> Field(state, "id")
    [] id = "flag" -> Field(state, "flag")
    [] id = "subs" -> Field(state, "sub")
    [] OTHER -> state

\* a call of a watcher's effect, as the trace records it
EffectEv(id, state, prevState) ==
  [e |-> "effect", id |-> id, state |-> state, prevState |-> prevState]

\* watch's setter, before it calls set: if (!curr) curr = selector(ctx.get())
watchBefore(m, id, s) ==
  IF ~Truthy(m.watch.curr[id])
  THEN [m EXCEPT !.watch.curr[id] = Selector(id, scopedGet(s, rootGet(m)))]
  ELSE m

\* watch's setter, after it called set: next = selector(ctx.get());
\* if (!equalityFn(next, curr)) { prev = curr; effect((curr = next), prev) }
watchAfter(m, id, s) ==
  LET next == Selector(id, scopedGet(s, rootGet(m)))
  IN IF ~ObjectIs(next, m.watch.curr[id])
     THEN Log([m EXCEPT !.watch.curr[id] = next], EffectEv(id, next, m.watch.curr[id]))
     ELSE m

\* combineWatchers, runWatchers(ctx): fns.forEach((fn) => fn(() => {}, ctx))
RECURSIVE runWatchers(_, _, _)
runWatchers(m, ids, s) ==
  IF ids = <<>> THEN m
  ELSE runWatchers(watchAfter(watchBefore(m, Head(ids), s), Head(ids), s), Tail(ids), s)

\* The synchronous call stack of a set call, as the steps still to run, the
\* next one first:
\*   "set"     createLens._set of scope s is called with write w
\*   "commit"  the setter hook of s calls its commit callback
\*   "after"   the README setter of s logs after its commit callback returned
\*   "test"    the test's setter of s runs: if (!get().flag) get().test()
\*   "exit"    the atomic(...) call around the setter hook of s ends
\*   "wbefore", "wafter"  watch's setter of s before and after its set()
\*   "cinit", "crun"      combineWatchers' setter of s before and after its set()
\*   "wcommit" the commit callback called by a watcher's setter
\*   "throw"   the setter hook of s throws
Step(k, s, w) == [k |-> k, s |-> s, w |-> w]

\* a bug: a setter hook that runs its commit callback twice
setterStepsTwice(kind, s, w) ==
  <<Step("commit", s, w), Step("commit", s, w)>>

\* setterFn of scope s, as the steps it runs: (x) => x() unless the realized
\* value had [meta].setter
\*   "log":   before; set(); after                    (README.md)
\*   "after": set(); if (!get().flag) get().test()     (index.test.ts)
\*   "throws": throw new Error()      "late": set(); throw new Error()
\*   "twice": set(); set()
\*   "skip":  returns without calling set
setterSteps(kind, s, w) ==
  CASE kind = "log" -> <<Step("commit", s, w), Step("after", s, w)>>
    [] kind = "after" -> <<Step("commit", s, w), Step("test", s, w)>>
    [] kind = "watch" -> <<Step("wbefore", s, w), Step("wcommit", s, w), Step("wafter", s, w)>>
    [] kind = "combine" -> <<Step("cinit", s, w), Step("wcommit", s, w), Step("crun", s, w)>>
    [] kind = "throws" -> <<Step("throw", s, w)>>
    [] kind = "late" -> <<Step("commit", s, w), Step("throw", s, w)>>
    [] kind = "twice" -> <<Step("commit", s, w), Step("commit", s, w)>>
    [] kind = "skip" -> <<>>
    [] OTHER -> <<Step("commit", s, w)>>

\* the program state after step st
stepState(m, st) ==
  CASE st.k = "set" ->
         \* createLens._set: set(updater, normPath ? false : replace, ...args),
         \* set being atomic(() => setterFn(() => parentSet(...args), ctx))
         LET called == ctxEnter(Log(m, Ev("set", st.s, ReplaceOut(st.s, st.w), st.w.args)))
         IN IF m.hook[st.s] = "log" THEN Log(called, Ev("before", st.s, RU, <<>>)) ELSE called
    [] st.k = "commit" -> IF commitsToStore(st.s) THEN rootStoreSet(m, st.w) ELSE m
    [] st.k = "wcommit" ->
         IF commitsToStore(st.s)
         THEN rootStoreSet(Log(m, Ev("callback", st.s, RU, <<>>)), st.w)
         ELSE Log(m, Ev("callback", st.s, RU, <<>>))
    [] st.k = "wbefore" -> watchBefore(m, WatcherOf(st.s), st.s)
    [] st.k = "wafter" -> watchAfter(m, WatcherOf(st.s), st.s)
    [] st.k = "cinit" ->
         IF ~m.watch.initialized
         THEN runWatchers([m EXCEPT !.watch.initialized = TRUE], CombinedWatchers, st.s)
         ELSE m
    [] st.k = "crun" -> runWatchers(m, CombinedWatchers, st.s)
    [] st.k = "after" -> Log(m, Ev("after", st.s, RU, <<>>))
    [] st.k = "exit" -> ctxExit(m)
    [] OTHER -> m

\* the steps that step st puts on the stack
stepCalls(m, st) ==
  CASE st.k = "set" -> setterSteps(m.hook[st.s], st.s, st.w) \o <<Step("exit", st.s, st.w)>>
    [] st.k \in {"commit", "wcommit"} ->
         IF commitsToStore(st.s) THEN <<>> ELSE <<Step("set", ParentOf(st.s), st.w)>>
    [] st.k = "test" ->
         IF ~Truthy(Field(rootGet(m), "flag")) THEN <<Step("set", Root, FlagWrite)>> ELSE <<>>
    [] OTHER -> <<>>

\* run the stack to its end
RECURSIVE run(_, _)
run(m, stack) ==
  IF stack = <<>> THEN m
  ELSE run(stepState(m, Head(stack)), stepCalls(m, Head(stack)) \o Tail(stack))

\* createLens._set of scope s, called by user code with write w
lensSet(m, s, w) == run(m, <<Step("set", s, w)>>)

\* Errors. A setter hook may throw, and so may the function given as the
\* partial, which the innermost updater calls while the store's setState runs
\* the root's updater: (s) => { throw new Error() } is the partial "throws".
ThrowsFn(w) == w.ps.kind = "fn" /\ w.ps.name = "throws"

\* the set handed to withLenses when the updater of write w throws: setState
\* assigns nothing; atomicImpl._set is atomic(() => tempStore.setState(...)),
\* whose finally block runs
rootStoreSetThrows(m, w) ==
  LET m1 == Log(m, Ev("throw", w.scope, RU, <<>>))
  IN IF m.mw /\ ~m.immer THEN atomicExit(atomicEnter(m1)) ELSE m1

\* a bug: atomic with a catch block
caughtByAtomic(st) == st.k = "exit"

\* whether the frame that step st ends catches the error passing through it:
\* set is atomic(() => setterFn(...)) and atomic is try { fn() } finally { ... },
\* nothing else is on the stack
caught(st) == FALSE

\* run the stack to its end or to the error that leaves it: a step that throws
\* drops the steps after it up to the end of each enclosing atomic call, whose
\* finally block runs
RECURSIVE runThrowing(_, _, _)
runThrowing(m, stack, err) ==
  IF stack = <<>> THEN [m |-> m, err |-> err]
  ELSE LET st == Head(stack)
       IN IF err
          THEN IF st.k = "exit"
               THEN runThrowing(stepState(m, st), Tail(stack), ~caught(st))
               ELSE runThrowing(m, Tail(stack), TRUE)
          ELSE IF st.k = "throw"
          THEN runThrowing(Log(m, Ev("throw", st.s, RU, <<>>)), Tail(stack), TRUE)
          ELSE IF st.k \in {"commit", "wcommit"} /\ commitsToStore(st.s) /\ ThrowsFn(st.w)
          THEN runThrowing(rootStoreSetThrows(m, st.w), Tail(stack), TRUE)
          ELSE runThrowing(stepState(m, st), stepCalls(m, st) \o Tail(stack), FALSE)

\* ------------------------------------------------------------------ state
VARIABLES live, temp, counter, mw, notified, nextId, trace, hook,
          frames, ops, last, pre, ref, thrown, def, immer, watchers

vars == <<live, temp, counter, mw, notified, nextId, trace, hook, frames, ops, last, pre,
          ref, thrown, def, immer, watchers>>

M == [live |-> live, temp |-> temp, counter |-> counter, mw |-> mw, immer |-> immer,
      watch |-> watchers,
      notified |-> notified, nextId |-> nextId, trace |-> <<>>, hook |-> hook]

\* the state before the last call, kept for the properties
Snapshot == [live |-> live, temp |-> temp, counter |-> counter, ref |-> ref,
             watchers |-> watchers,
             notified |-> notified, nextId |-> nextId, frames |-> frames]

Becomes(m) ==
  /\ live' = m.live
  /\ temp' = m.temp
  /\ counter' = m.counter
  /\ notified' = m.notified
  /\ nextId' = m.nextId
  /\ trace' = m.trace
  /\ watchers' = m.watch
  /\ pre' = Snapshot
  /\ UNCHANGED <<mw, hook, def, immer>>

DataKey(s) == CASE s = Root -> "flag" [] s = Leaf -> "value" [] OTHER -> "id"

In(ps, replace, args) == [ps |-> ps, replace |-> replace, args |-> args]

WriteInputs(s) ==
  LET k == DataKey(s)
  IN {In(ObjPartial([j \in {k} |-> Prim(1)]), RU, <<>>),
      In(FnPartial("bump", k), RU, <<"x">>)}
     \cup (IF s = Root
           THEN {In(FnPartial("same", k), RU, <<>>)}
           ELSE {In(ObjPartial([j \in {k} |-> Prim(2)]), RT, <<"x", "y">>),
                 In(FnPartial("same", k), RT, <<>>)})

NoWrite == Write(Root, ObjPartial(EmptyF), RU, <<>>)

\* the state after create(...) on the tree of hook configuration cfg, with
\* the atomic middleware (a), the immer middleware (c) or neither
InitWith(cfg, a, c) ==
  /\ live = findLensAndCreate(DefTree(HooksOf(cfg)))
  /\ hook = [s \in Scopes |-> SetterFnOf(findLensAndCreate(DefTree(HooksOf(cfg))), s)]
  /\ temp = Undef
  /\ counter = 0
  /\ mw = a
  /\ immer = c
  /\ watchers = NoWatchers
  /\ notified = 0
  /\ nextId = 1
  /\ trace = <<>>
  /\ frames = 0
  /\ ops = 0
  /\ last = [op |-> "init", w |-> NoWrite]
  /\ pre = [live |-> findLensAndCreate(DefTree(HooksOf(cfg))), temp |-> Undef,
            ref |-> findLensAndCreate(DefTree(HooksOf(cfg))),
            counter |-> 0, notified |-> 0, nextId |-> 1, frames |-> 0]
  /\ ref = findLensAndCreate(DefTree(HooksOf(cfg)))
  /\ thrown = FALSE
  /\ def = DefTree(HooksOf(cfg))

\* create(withLenses(tree)) or create(atomic(withLenses(tree)))
Init == \E cfg \in HookConfigs, a \in BOOLEAN : InitWith(cfg, a, FALSE)

\* The reference store: create(withLenses(tree)) with the same tree and no
\* atomic middleware, given every write this store is given, as it is given.
RefM == [live |-> ref, temp |-> Undef, counter |-> 0, mw |-> FALSE, immer |-> immer,
         watch |-> watchers,
         notified |-> 0, nextId |-> nextId, trace |-> <<>>, hook |-> hook]

\* user code calls the setter of scope s: the root's set or a lens's set
SetCall(s, in) ==
  /\ ops < MaxOps
  /\ Becomes(lensSet(M, s, Write(s, in.ps, in.replace, in.args)))
  /\ ref' = lensSet(RefM, s, Write(s, in.ps, in.replace, in.args)).live
  /\ ops' = ops + 1
  /\ last' = [op |-> "set", w |-> Write(s, in.ps, in.replace, in.args)]
  /\ UNCHANGED <<frames, thrown>>

\* user code inside a lens action calls ctx.atomic(fn): up to the start of fn
AtomicCall ==
  /\ ops < MaxOps
  /\ frames < MaxFrames
  /\ Becomes(lensAtomic(M))
  /\ frames' = frames + 1
  /\ ops' = ops + 1
  /\ last' = [op |-> "atomic", w |-> NoWrite]
  /\ UNCHANGED <<ref, thrown>>

\* the fn of the innermost running ctx.atomic(fn) returns
AtomicReturn ==
  /\ frames > 0
  /\ Becomes(IF mw THEN atomicExit(M) ELSE M)
  /\ frames' = frames - 1
  /\ last' = [op |-> "return", w |-> NoWrite]
  /\ UNCHANGED <<ops, ref, thrown>>

Next ==
  \/ \E s \in Scopes : \E in \in WriteInputs(s) : SetCall(s, in)
  \/ AtomicCall
  \/ AtomicReturn

Spec == Init /\ [][Next]_vars

\* A root write with replace = true through the set withLenses hands to its
\* config: set({ flag: 2 }, true)
RootReplaceInputs == {In(ObjPartial([j \in {"flag"} |-> Prim(2)]), RT, <<>>)}

\* store.setState(partial, replace) of the store that create(...) returned,
\* which is the real store's own setState whatever middleware is installed;
\* called by code outside every atomic call
StoreInputs ==
  {In(ObjPartial([j \in {"flag"} |-> Prim(2)]), RU, <<>>),
   In(ObjPartial([j \in {"flag"} |-> Prim(2)]), RT, <<>>)}

StoreSetState(in) ==
  /\ ops < MaxOps
  /\ frames = 0
  /\ Becomes(storeSet(Fresh(M), Obj(nextId, in.ps.f), in.replace))
  /\ ref' = setState(ref, Obj(nextId, in.ps.f), in.replace, nextId + 1)
  /\ ops' = ops + 1
  /\ last' = [op |-> "store", w |-> Write(Root, in.ps, in.replace, in.args)]
  /\ UNCHANGED <<frames, thrown>>

\* a bug: atomic without try/finally, an error leaves the counter as it is
AtomicThrowNoFinally(j) ==
  /\ frames >= j
  /\ Becomes(M)
  /\ frames' = frames - j
  /\ thrown' = TRUE
  /\ last' = [op |-> "throw", w |-> NoWrite]
  /\ UNCHANGED <<ops, ref>>

\* the fn of the innermost running ctx.atomic(fn) throws; the error passes
\* through j of the running atomic calls (their finally blocks run) before
\* user code catches it
AtomicThrow(j) ==
  /\ frames >= j
  /\ Becomes(run(M, [i \in 1..j |-> Step("exit", Root, NoWrite)]))
  /\ frames' = frames - j
  /\ thrown' = TRUE
  /\ last' = [op |-> "throw", w |-> NoWrite]
  /\ UNCHANGED <<ops, ref>>

\* every call of the engine: also root writes with replace, and errors
NextFull ==
  \/ Next
  \/ \E in \in RootReplaceInputs : SetCall(Root, in)
  \/ \E j \in 1..MaxFrames : AtomicThrow(j)

SpecFull == Init /\ [][NextFull]_vars

\* create(withLenses(tree)) or create(immer(withLenses(tree))), with the
\* postprocess hooks of the tests; the writes of the tests on immer:
\* set((s) => ({ id: s.id + 1 })) and, on a draft, set((draft) => { draft.name = ... })
DraftConfigs == {"plain", "readme", "join", "quiet"}
DraftInputs(s) ==
  WriteInputs(s) \cup {In(FnPartial("inc", DataKey(s)), RU, <<"x">>),
                       In(FnPartial("mutate", DataKey(s)), RU, <<>>)}
InitDraft == \E cfg \in DraftConfigs, c \in BOOLEAN : InitWith(cfg, FALSE, c)
NextDraft ==
  \E s \in Scopes : \E in \in DraftInputs(s) :
    /\ in.ps.name = "mutate" => immer
    /\ SetCall(s, in)
SpecDraft == InitDraft /\ [][NextDraft]_vars

\* Markers made before any store exists and realized more than once:
\*   const m0 = lens(() => ({ a: 1 })), m1 = lens(() => ({ a: m0, b: 1 }))
\* in the trees { a: m0, b: m0 }, { a: m0, b: { a: m0 } }, { a: m1, b: m1 }
\* and { a: m1, b: m0 }, each handed to withLenses in two stores.
MaxTwinWrites == 2
TwinM0 == LensMarker(PlainNode([k \in {"a"} |-> Prim(1)]))
TwinM1 == LensMarker(PlainNode([k \in {"a", "b"} |-> IF k = "a" THEN TwinM0 ELSE Prim(1)]))
TwinTrees ==
  {PlainNode([k \in {"a", "b"} |-> TwinM0]),
   PlainNode([k \in {"a", "b"} |->
               IF k = "a" THEN TwinM0 ELSE PlainNode([j \in {"a"} |-> TwinM0])]),
   PlainNode([k \in {"a", "b"} |-> TwinM1]),
   PlainNode([k \in {"a", "b"} |-> IF k = "a" THEN TwinM1 ELSE TwinM0])}

\* the store a setter ends up calling, and the paths of the createLens
\* setters it passes on the way, outermost first (<<>> for the pathless lens
\* of the root, which is handed replace = false by every lens)
RECURSIVE TargetStore(_)
TargetStore(c) == IF c.fn = "store.set" THEN c.store ELSE TargetStore(c.of)
RECURSIVE LensPaths(_)
LensPaths(c) ==
  CASE c.fn = "_set" ->
         LensPaths(c.of) \o <<IF c.path = <<"undefined">> THEN <<>> ELSE c.path>>
    [] c.fn \in {"set", "setFn"} -> LensPaths(c.of)
    [] OTHER -> <<>>

TwinKey(v) == CHOOSE k \in DOMAIN v.f : v.f[k].t = "p"
TwinInputs(k) ==
  {In(ObjPartial([j \in {k} |-> Prim(2)]), RU, <<>>),
   In(FnPartial("bump", k), RU, <<>>),
   In(ObjPartial([j \in {k} |-> Prim(2)]), RT, <<>>)}

InitTwin ==
  /\ def \in TwinTrees
  /\ live = withLenses(def)
  /\ ref = withLenses(def)
  /\ hook = [s \in Scopes |-> "none"]
  /\ temp = Undef
  /\ counter = 0
  /\ mw = FALSE
  /\ immer = FALSE
  /\ watchers = NoWatchers
  /\ notified = 0
  /\ nextId = 1
  /\ trace = <<>>
  /\ frames = 0
  /\ ops = 0
  /\ thrown = FALSE
  /\ last = [op |-> "init", w |-> NoWrite]
  /\ pre = [live |-> live, temp |-> Undef, ref |-> ref, counter |-> 0, notified |-> 0,
            nextId |-> 1, frames |-> 0]

\* user code calls the set that the initializer of a marker was given when
\* store n realized the marker at call.ctx.rootPath
TwinWrite(n, call, in) ==
  LET target == TargetStore(call.set)
      st == IF target = 1 THEN live ELSE ref
      w == Write(call.ctx.rootPath, in.ps, in.replace, in.args)
      u == chainUpdater(LensPaths(call.set), <<>>, w, st, st, nextId)
      next == setState(st, u.val, RF, nextId + 1)
  IN /\ ops < MaxTwinWrites
     /\ live' = IF target = 1 THEN next ELSE live
     /\ ref' = IF target = 1 THEN ref ELSE next
     /\ notified' = notified + (IF ObjectIs(u.val, st) THEN 0 ELSE 1)
     /\ trace' = u.ev
     /\ nextId' = nextId + 2
     /\ ops' = ops + 1
     /\ pre' = Snapshot
     /\ last' = [op |-> "twin", w |-> w, store |-> n]
     /\ UNCHANGED <<temp, counter, mw, hook, frames, thrown, def, immer, watchers>>

NextTwin ==
  \E n \in {1, 2} : \E call \in lensCalls(def, RootCtxOf(n)) :
    \E in \in TwinInputs(TwinKey(getIn(withLenses(def), call.ctx.rootPath))) :
      TwinWrite(n, call, in)

SpecTwin == InitTwin /\ [][NextTwin]_vars

\* Stores whose lenses carry the watchers of helpers.ts as setter hooks, with
\* or without the atomic middleware; besides the writes through each scope,
\* the root writes to the value of the lens sub:
\*   set((s) => ({ sub: { ...s.sub, id: s.sub.id % 2 + 1 } }))
WatchConfigs == {"watch", "combine"}
InsideInputs == {In(FnPartial("inside", "sub"), RU, <<>>)}
InitWatch == \E cfg \in WatchConfigs, a \in BOOLEAN : InitWith(cfg, a, FALSE)
NextWatch ==
  \/ \E s \in Scopes : \E in \in WriteInputs(s) : SetCall(s, in)
  \/ \E in \in InsideInputs : SetCall(Root, in)
SpecWatch == InitWatch /\ [][NextWatch]_vars

\* Stores whose setter hooks or partials throw: sub's hook throws before its
\* commit callback, the root's hook does, sub.nested's hook throws after it,
\* or no hook does. thrown tells whether the last call of a setter ended with
\* an error.
ThrowConfigs == {"plain", "throws", "rootthrows", "late"}
ThrowInputs(s) == WriteInputs(s) \cup {In(FnPartial("throws", DataKey(s)), RU, <<>>)}
InitThrow == \E cfg \in ThrowConfigs, a \in BOOLEAN : InitWith(cfg, a, FALSE)

\* user code calls the setter of scope s and catches what it throws
ThrowingSetCall(s, in) ==
  LET w == Write(s, in.ps, in.replace, in.args)
      r == runThrowing(M, <<Step("set", s, w)>>, FALSE)
  IN /\ ops < MaxOps
     /\ Becomes(r.m)
     /\ thrown' = r.err
     /\ ref' = runThrowing(RefM, <<Step("set", s, w)>>, FALSE).m.live
     /\ ops' = ops + 1
     /\ last' = [op |-> "set", w |-> w]
     /\ UNCHANGED frames

NextThrow ==
  \/ \E s \in Scopes : \E in \in ThrowInputs(s) : ThrowingSetCall(s, in)
  \/ AtomicCall
  \/ AtomicReturn

SpecThrow == InitThrow /\ [][NextThrow]_vars

\* Stores with a setter hook that calls its commit callback twice,
\* (set) => { set(); set() }: on sub, on the root, or on the root and sub
\* at once.
TwiceConfigs == {"twice", "roottwice", "bothtwice"}
InitTwice == \E cfg \in TwiceConfigs, a \in BOOLEAN : InitWith(cfg, a, FALSE)
SpecTwice == InitTwice /\ [][Next]_vars

\* Stores with a setter hook that returns without calling its commit
\* callback, () => {}: on sub, on the root, or on sub.nested.
SkipConfigs == {"skip", "rootskip", "nestedskip"}
InitSkip == \E cfg \in SkipConfigs, a \in BOOLEAN : InitWith(cfg, a, FALSE)
\* Re-entrant writes. The function given as the partial of a write may call
\* a setter while it runs: old => { set(inner); return { [key]: ... } }. The
\* store's setState calls the updater with the state it holds (zustand:
\* nextState = partial(state)), the updater calls the partial first and reads
\* get() for the immer detection afterwards, and setState then compares and
\* merges nextState with the state the inner write left.

\* the set calls of a write through scope s of a store without setter hooks,
\* from the set of s up to the root's: each runs atomic(() => setterFn(...))
\* and setterFn calls the set above
RECURSIVE setsEntered(_, _, _)
setsEntered(m, s, w) ==
  IF s = Root THEN stepState(m, Step("set", Root, w))
  ELSE setsEntered(stepState(m, Step("set", s, w)), ParentOf(s), w)

\* the same calls returning, innermost first
RECURSIVE setsLeft(_, _)
setsLeft(m, s) ==
  IF s = Root THEN ctxExit(m) ELSE setsLeft(ctxExit(m), ParentOf(s))

\* what a re-entrant set call leaves: the program state (m) and the tree the
\* updater was handed as parentValue, as the heap holds it afterwards (draft)
reentrantResult(m1, w, u) == [m |-> rootStoreSetWith(m1, w, u), draft |-> u.draft]

\* the updater of write w run on the state m0 held when setState was called,
\* get() returning the state of m1, which the partial's inner write left
reentrantUpdate(m0, m1, w) ==
  reentrantResult(m1, w,
    updater(Root, w, IF m0.mw THEN m0.temp ELSE m0.live, rootGet(m1), m1.nextId))

\* the store's set, called by the root's commit callback with the updater of
\* write w, whose partial calls the set of scope wIn.scope with wIn
reentrantStoreSet(m0, w, wIn) == reentrantUpdate(m0, lensSet(m0, wIn.scope, wIn), w)

reentrantLeave(r, s) == [m |-> setsLeft(r.m, s), draft |-> r.draft]

\* createLens._set of scope w.scope called with write w, whose partial calls
\* the set of scope wIn.scope with wIn while it runs
reentrantSet(m, w, wIn) ==
  reentrantLeave(
    reentrantStoreSet(IF setsEntered(m, w.scope, w).mw
                      THEN atomicEnter(setsEntered(m, w.scope, w))
                      ELSE setsEntered(m, w.scope, w), w, wIn),
    w.scope)

\* The tree x, read again once the tree d was left as it is: an object of x
\* that is an object of d (same place, same stamp) has the properties d gives
\* it, an object that is not keeps its own properties, which may hold
\* objects of d. The shadow state's root is a copy of the real state's root
\* holding the same objects.
RECURSIVE reread(_, _)
reread(x, d) ==
  IF x.t # "o" \/ d.t # "o" THEN x
  ELSE IF x.id = d.id THEN d
  ELSE Obj(x.id, [k \in DOMAIN x.f |->
                   IF k \in DOMAIN d.f THEN reread(x.f[k], d.f[k]) ELSE x.f[k]])

MaxReentrantWrites == 2

\* the re-entrant writes through scope s: the partial is
\*   old => { set({ [key]: 2 }); return { [key]: old[key] % 2 + 1 } }   or
\*   old => { set({ [key]: 2 }) }
\* set being the setter of s itself
ReentrantInputs(s) ==
  {[w |-> Write(s, FnPartial(n, DataKey(s)), RU, <<>>),
    inner |-> Write(s, ObjPartial([j \in {DataKey(s)} |-> Prim(2)]), RU, <<>>)] :
   n \in {"bump", "void"}}

InitReentrant == \E a \in BOOLEAN : InitWith("plain", a, FALSE)

ReentrantDone(r, in) ==
  /\ Becomes(r.m)
  /\ last' = [op |-> "reentrant", w |-> in.w, inner |-> in.inner,
              snap |-> reread(live, r.draft)]

\* user code calls the setter of scope s with a function that calls the
\* setter of s while it runs; last.snap is the state object the store held
\* before the call, read after it
ReentrantSetCall(s, in) ==
  /\ ops < MaxReentrantWrites
  /\ ReentrantDone(reentrantSet(M, in.w, in.inner), in)
  /\ ops' = ops + 1
  /\ UNCHANGED <<frames, ref, thrown>>

\* every later call of a store whose get() returns undefined throws; such a
\* store is left as it is
Usable == rootGet(M).t = "o"

NextReentrant ==
  \/ \E s \in Scopes : \E in \in ReentrantInputs(s) : Usable /\ ReentrantSetCall(s, in)
  \/ \E s \in Scopes : \E in \in WriteInputs(s) : Usable /\ SetCall(s, in)
  \/ Usable /\ AtomicCall
  \/ Usable /\ AtomicReturn

SpecReentrant == InitReentrant /\ [][NextReentrant]_vars

\* subscribe(store, selector, effect, options) of helpers.ts on a store
\* create((set) => ({ id: 1, name: "abc", ... })) without lenses, after the
\* test "subscribe". Subscription 1 is subscribe(store, (s) => s.id, cb1,
\* { fireImmediately: true }), subscription 2 is subscribe(store, (s) =>
\* s.name, cb2, { equalityFn: (a, b) => a.length === b.length }). A string is
\* the sequence of its characters. In this specification watchers holds curr
\* of every subscription and whether its listener is in the store's set of
\* listeners ("none" before subscribe, "on", "off" after unsubscribe), live the
\* store's state and ref, per subscription, the value last handed to its
\* effect (the value selected when it subscribed, before the first call).
MaxSubOps == 4
SubIds == {1, 2}
Str(chars) == Prim(chars)
SubStart == Obj(0, [k \in {"id", "name"} |-> IF k = "id" THEN Prim(1) ELSE Str(<<"a", "b", "c">>)])
SubSelector(k, state) == IF k = 1 THEN Field(state, "id") ELSE Field(state, "name")
SubEquality(k, a, b) == IF k = 1 THEN ObjectIs(a, b) ELSE Len(a.v) = Len(b.v)
SubFireImmediately(k) == k = 1
SubPartials ==
  {[k \in {"id", "name"} |-> IF k = "id" THEN Prim(2) ELSE Str(<<"d", "e", "f">>)],
   [k \in {"id", "name"} |-> IF k = "id" THEN Prim(2) ELSE Str(<<"a", "b", "c", "d", "e", "f">>)],
   [k \in {"id"} |-> Prim(3)],
   [k \in {"name"} |-> Str(<<"a", "b", "c">>)]}

\* a bug: a listener that records every value it is shown
listenerRecordsAll(m, k, state) ==
  LET next == SubSelector(k, state)
  IN IF ~SubEquality(k, next, m.watch.curr[k])
     THEN Log([m EXCEPT !.watch.curr[k] = next], EffectEv(k, next, m.watch.curr[k]))
     ELSE [m EXCEPT !.watch.curr[k] = next]

\* the listener subscribe hands to store.subscribe:
\*   next = selector(state); if (!equalityFn(next, curr)) { prev = curr; effect((curr = next), prev) }
listener(m, k, state) ==
  LET next == SubSelector(k, state)
  IN IF ~SubEquality(k, next, m.watch.curr[k])
     THEN Log([m EXCEPT !.watch.curr[k] = next], EffectEv(k, next, m.watch.curr[k]))
     ELSE m

\* zustand setState: listeners.forEach((listener) => listener(state, previousState))
RECURSIVE notifyListeners(_, _, _)
notifyListeners(m, ks, state) ==
  IF ks = {} THEN m
  ELSE LET k == CHOOSE j \in ks : \A i \in ks : j <= i
       IN notifyListeners(IF m.watch.status[k] = "on" THEN listener(m, k, state) ELSE m,
                          ks \ {k}, state)

SubM == [watch |-> watchers, trace |-> <<>>]

\* ref after a call that left the trace tr
Reported(tr) ==
  [k \in SubIds |->
    LET calls == {i \in 1..Len(tr) : tr[i].e = "effect" /\ tr[i].id = k}
    IN IF calls = {} THEN ref[k]
       ELSE tr[CHOOSE i \in calls : \A j \in calls : j <= i].state]

InitSub ==
  /\ live = SubStart
  /\ watchers = [curr |-> [k \in SubIds |-> Undef], status |-> [k \in SubIds |-> "none"]]
  /\ ref = [k \in SubIds |-> Undef]
  /\ def = Undef
  /\ hook = [s \in Scopes |-> "none"]
  /\ temp = Undef
  /\ counter = 0
  /\ mw = FALSE
  /\ immer = FALSE
  /\ notified = 0
  /\ nextId = 1
  /\ trace = <<>>
  /\ frames = 0
  /\ ops = 0
  /\ thrown = FALSE
  /\ last = [op |-> "init", w |-> NoWrite]
  /\ pre = [live |-> live, temp |-> Undef, ref |-> ref, watchers |-> watchers,
            counter |-> 0, notified |-> 0, nextId |-> 1, frames |-> 0]

SubFrame == UNCHANGED <<temp, counter, mw, hook, frames, thrown, def, immer>>

\* subscribe(store, selector, effect, options)
Subscribe(k) ==
  LET curr == SubSelector(k, live)
      m == [SubM EXCEPT !.watch.curr[k] = curr, !.watch.status[k] = "on"]
      done == IF SubFireImmediately(k) THEN Log(m, EffectEv(k, curr, curr)) ELSE m
  IN /\ ops < MaxSubOps
     /\ watchers.status[k] = "none"
     /\ watchers' = done.watch
     /\ trace' = done.trace
     /\ ref' = [ref EXCEPT ![k] = curr]
     /\ ops' = ops + 1
     /\ pre' = Snapshot
     /\ last' = [op |-> "subscribe", w |-> NoWrite, k |-> k]
     /\ UNCHANGED <<live, notified, nextId>>
     /\ SubFrame

\* the function subscribe returned is called: listeners.delete(listener)
Unsubscribe(k) ==
  /\ watchers.status[k] = "on"
  /\ watchers' = [watchers EXCEPT !.status[k] = "off"]
  /\ trace' = <<>>
  /\ pre' = Snapshot
  /\ last' = [op |-> "unsubscribe", w |-> NoWrite, k |-> k]
  /\ UNCHANGED <<live, notified, nextId, ref, ops>>
  /\ SubFrame

\* set(partial) of the store: the state is replaced by a merged copy and
\* every listener is called with it
SubWrite(f) ==
  LET next == setState(live, Obj(nextId, f), RU, nextId + 1)
      m == notifyListeners(SubM, SubIds, next)
  IN /\ ops < MaxSubOps
     /\ live' = next
     /\ watchers' = m.watch
     /\ trace' = m.trace
     /\ ref' = Reported(m.trace)
     /\ notified' = notified + 1
     /\ nextId' = nextId + 2
     /\ ops' = ops + 1
     /\ pre' = Snapshot
     /\ last' = [op |-> "write", w |-> Write(Root, ObjPartial(f), RU, <<>>)]
     /\ SubFrame

NextSub ==
  \/ \E k \in SubIds : Subscribe(k)
  \/ \E k \in SubIds : Unsubscribe(k)
  \/ \E f \in SubPartials : SubWrite(f)

SpecSub == InitSub /\ [][NextSub]_vars

\* the engine's calls and the store's own setState
NextStore ==
  \/ NextFull
  \/ \E in \in StoreInputs : StoreSetState(in)

SpecStore == Init /\ [][NextStore]_vars

\* the same calls on the stores whose setter hooks skip their commit callback
SpecSkipStore == InitSkip /\ [][NextStore]_vars

\* createLens on its own (README.md, "createLens"): a store holding
\*   { a: { value, b: { value, c: <cv> } }, z }
\* whose objects at a, a.b and a.b.c may carry [meta].postprocess, c being an
\* object { id, value }, a number, or absent; lenses made over the store's set
\* and get with the path a.b.c cut into a chain in every way.
MaxChainWrites == 2
FullPath == <<"a", "b", "c">>
Chains == {<<FullPath>>, <<<<"a">>, <<"b", "c">>>>, <<<<"a", "b">>, <<"c">>>>,
           <<<<"a">>, <<"b">>, <<"c">>>>}
PPKinds == {"none", "join"}
WithPP(f, kind) == WithMeta(f, MetaVal(kind, "none"))
LensState(ma, mb, mc, cv) ==
  LET c == CASE cv = "obj" -> Obj(0, WithPP([k \in {"id", "value"} |-> Prim(1)], mc))
             [] cv = "prim" -> Prim(1)
             [] cv = "arr" -> Arr(0, [j \in {"0"} |-> Prim(1)])
             [] OTHER -> Undef
      b == Obj(0, WithPP(IF cv = "none" THEN [k \in {"value"} |-> Prim(1)]
                         ELSE [k \in {"value", "c"} |-> IF k = "c" THEN c ELSE Prim(1)], mb))
      a == Obj(0, WithPP([k \in {"value", "b"} |-> IF k = "b" THEN b ELSE Prim(1)], ma))
  IN Obj(0, [k \in {"a", "z"} |-> IF k = "a" THEN a ELSE Prim(0)])
LensStates ==
  {LensState(ma, mb, mc, cv) : ma \in PPKinds, mb \in PPKinds, mc \in PPKinds,
                               cv \in {"obj", "prim", "none"}}
ChainInputs ==
  {In(ObjPartial([j \in {"id"} |-> Prim(1)]), RU, <<>>),
   In(ObjPartial([j \in {"id"} |-> Prim(2)]), RT, <<"x">>),
   In(FnPartial("bump", "id"), RU, <<>>),
   In(FnPartial("same", "value"), RF, <<>>)}

InitLens ==
  /\ live \in LensStates
  /\ ref = live
  /\ def = live
  /\ hook = [s \in Scopes |-> "none"]
  /\ temp = Undef
  /\ counter = 0
  /\ mw = FALSE
  /\ immer = FALSE
  /\ watchers = NoWatchers
  /\ notified = 0
  /\ nextId = 1
  /\ trace = <<>>
  /\ frames = 0
  /\ ops = 0
  /\ thrown = FALSE
  /\ last = [op |-> "init", w |-> NoWrite]
  /\ pre = [live |-> live, temp |-> Undef, ref |-> live, counter |-> 0, notified |-> 0,
            nextId |-> 1, frames |-> 0]

\* one write through the innermost lens of a chain over the store live, and
\* the same write through createLens(set, get, FullPath) over the store ref
ChainWrite(chain, in) ==
  LET w == Write(FullPath, in.ps, in.replace, in.args)
      chained == chainUpdater(chain, <<>>, w, live, live, nextId)
      direct == chainUpdater(<<FullPath>>, <<>>, w, ref, ref, nextId)
  IN /\ ops < MaxChainWrites
     /\ live' = setState(live, chained.val, RF, nextId + 1)
     /\ ref' = setState(ref, direct.val, RF, nextId + 1)
     /\ notified' = notified + (IF ObjectIs(chained.val, live) THEN 0 ELSE 1)
     /\ trace' = chained.ev
     /\ nextId' = nextId + 2
     /\ ops' = ops + 1
     /\ pre' = Snapshot
     /\ last' = [op |-> "chain", w |-> w, chain |-> chain]
     /\ UNCHANGED <<temp, counter, mw, hook, frames, thrown, def, immer, watchers>>

NextLens == \E chain \in Chains : \E in \in ChainInputs : ChainWrite(chain, in)

SpecLens == InitLens /\ [][NextLens]_vars

\* createLens(set, get, path) for a path argument that is undefined (the
\* pathless overload), a string or an array:
\*   normPath = path === undefined ? undefined : typeof path === "string" ? [path] : path
\* An array is truthy in JavaScript whatever its length, so normPath ? x : y
\* takes x for every path that is not undefined.
PathUndefined == [k |-> "undefined"]
PathArray(p) == [k |-> "array", v |-> p]
PathString(k) == [k |-> "string", s |-> k]
normPathOf(path) == IF path.k = "string" THEN PathArray(<<path.s>>) ELSE path
hasPath(normPath) == normPath.k # "undefined"
pathOf(normPath) == IF hasPath(normPath) THEN normPath.v ELSE <<>>

\* the updater createLens(set, get, path)._set passes to set for write w,
\* applied to parentValue; G is what get() returns
lensUpdater(normPath, w, parentValue, G, id) ==
  updaterBranch(Root, w, hasPath(normPath), parentValue, pathOf(normPath), id, w.replace,
                getIn(parentValue, pathOf(normPath)), getIn(G, pathOf(normPath)),
                [val |-> ApplyPartial(w.ps, getIn(parentValue, pathOf(normPath)), id),
                 ev |-> <<>>,
                 draft |-> AfterPartial(w.ps, getIn(parentValue, pathOf(normPath)), id)])

\* the replace argument it passes along: normPath ? false : replace
lensReplaceOut(normPath, replace) == IF hasPath(normPath) THEN RF ELSE replace

\* Two stores with the same state, written through createLens(set, get, [])
\* over the store live and through createLens(set, get) over the store ref,
\* set and get being the stores' own.
MaxEmptyWrites == 2
EmptyInputs ==
  {In(ObjPartial([j \in {"z"} |-> Prim(2)]), RU, <<>>),
   In(ObjPartial([j \in {"z"} |-> Prim(2)]), RF, <<>>),
   In(ObjPartial([j \in {"z"} |-> Prim(2)]), RT, <<"x">>),
   In(ObjPartial([j \in {"z"} |-> Prim(0)]), RU, <<>>),
   In(FnPartial("bump", "z"), RU, <<>>),
   In(FnPartial("same", "z"), RT, <<>>)}

EmptyWrite(in) ==
  LET w == Write(Root, in.ps, in.replace, in.args)
      empty == lensUpdater(normPathOf(PathArray(<<>>)), w, live, live, nextId)
      pathless == lensUpdater(normPathOf(PathUndefined), w, ref, ref, nextId)
  IN /\ ops < MaxEmptyWrites
     /\ live' = setState(live, empty.val, lensReplaceOut(normPathOf(PathArray(<<>>)), w.replace),
                         nextId + 1)
     /\ ref' = setState(ref, pathless.val, lensReplaceOut(normPathOf(PathUndefined), w.replace),
                        nextId + 1)
     /\ notified' = notified + (IF ObjectIs(empty.val, live) THEN 0 ELSE 1)
     /\ trace' = empty.ev
     /\ nextId' = nextId + 2
     /\ ops' = ops + 1
     /\ pre' = Snapshot
     /\ last' = [op |-> "empty", w |-> w,
                 out |-> lensReplaceOut(normPathOf(PathArray(<<>>)), w.replace),
                 refOut |-> lensReplaceOut(normPathOf(PathUndefined), w.replace)]
     /\ UNCHANGED <<temp, counter, mw, hook, frames, thrown, def, immer, watchers>>

NextEmpty == \E in \in EmptyInputs : EmptyWrite(in)

SpecEmpty == InitLens /\ [][NextEmpty]_vars

\* Lenses on values that are not plain objects: createLens(set, get,
\* ["a", "b", "c"]) and createLens(set, get, "z") over a store whose a.b.c is
\* a number, an array or absent and whose z is a number.
MaxPrimWrites == 2
PrimPaths == {PathArray(FullPath), PathString("z")}
PrimStates == {LensState("none", "none", "none", cv) : cv \in {"prim", "arr", "none"}}
PrimInputs ==
  {In(ValPartial(Prim(1)), RU, <<>>),
   In(ValPartial(Prim(2)), RT, <<>>),
   In(ValPartial(Prim(0)), RF, <<>>),
   In(ValPartial(Undef), RU, <<>>),
   In(ArrPartial([j \in {"0"} |-> Prim(1)]), RU, <<>>),
   In(ObjPartial([j \in {"id"} |-> Prim(1)]), RU, <<>>),
   In(ObjPartial(WithPP([j \in {"value"} |-> Prim(1)], "join")), RF, <<"x">>),
   In(FnPartial("keep", ""), RT, <<>>),
   In(FnPartial("succ", ""), RU, <<>>),
   In(FnPartial("void", ""), RF, <<>>)}

InitPrim ==
  /\ live \in PrimStates
  /\ ref = live
  /\ def = live
  /\ hook = [s \in Scopes |-> "none"]
  /\ temp = Undef
  /\ counter = 0
  /\ mw = FALSE
  /\ immer = FALSE
  /\ watchers = NoWatchers
  /\ notified = 0
  /\ nextId = 1
  /\ trace = <<>>
  /\ frames = 0
  /\ ops = 0
  /\ thrown = FALSE
  /\ last = [op |-> "init", w |-> NoWrite]
  /\ pre = [live |-> live, temp |-> Undef, ref |-> live, counter |-> 0, notified |-> 0,
            nextId |-> 1, frames |-> 0]

\* one write through createLens(set, get, path) over the store's own set and get
PrimWrite(path, in) ==
  LET w == Write(pathOf(normPathOf(path)), in.ps, in.replace, in.args)
      u == lensUpdater(normPathOf(path), w, live, live, nextId)
  IN /\ ops < MaxPrimWrites
     /\ live' = setState(live, u.val, lensReplaceOut(normPathOf(path), w.replace), nextId + 1)
     /\ notified' = notified + (IF ObjectIs(u.val, live) THEN 0 ELSE 1)
     /\ trace' = u.ev
     /\ nextId' = nextId + 2
     /\ ops' = ops + 1
     /\ pre' = Snapshot
     /\ last' = [op |-> "prim", w |-> w]
     /\ UNCHANGED <<ref, temp, counter, mw, hook, frames, thrown, def, immer, watchers>>

NextPrim == \E path \in PrimPaths : \E in \in PrimInputs : PrimWrite(path, in)

SpecPrim == InitPrim /\ [][NextPrim]_vars

\* The walker on its own: a definition tree, then create(withLenses(tree)).
InitWalk ==
  /\ def \in DefTrees \cup {DefTree(HooksOf(cfg)) : cfg \in HookConfigs}
  /\ live = Undef
  /\ ref = Undef
  /\ hook = [s \in Scopes |-> "none"]
  /\ temp = Undef
  /\ counter = 0
  /\ mw = FALSE
  /\ immer = FALSE
  /\ watchers = NoWatchers
  /\ notified = 0
  /\ nextId = 1
  /\ trace = <<>>
  /\ frames = 0
  /\ ops = 0
  /\ thrown = FALSE
  /\ last = [op |-> "init", w |-> NoWrite]
  /\ pre = [live |-> Undef, temp |-> Undef, ref |-> Undef, counter |-> 0, notified |-> 0,
            nextId |-> 1, frames |-> 0]

Create ==
  /\ live = Undef
  /\ live' = withLenses(def)
  /\ last' = [op |-> "create", w |-> NoWrite]
  /\ UNCHANGED <<temp, counter, mw, notified, nextId, trace, hook, frames, ops, pre,
                 ref, thrown, def, immer, watchers>>

NextWalk == Create

SpecWalk == InitWalk /\ [][NextWalk]_vars

\* Definition trees with properties under a symbol key: plain objects with
\* the keys a or a and b, two levels deep, every plain object of which may
\* carry a lens marker under [meta] or, under a symbol of the user's, a
\* number, a lens marker or a plain object holding a lens marker.
SymMarker == LensMarker(PlainNode([k \in {"a"} |-> Prim(1)]))
SymValues == {Prim(1), SymMarker, PlainNode([k \in {"a"} |-> SymMarker])}
SymProps ==
  {EmptyF, [k \in {MetaKey} |-> SymMarker]} \cup {[k \in {SymKey} |-> v] : v \in SymValues}
SymNodesOver(S, keys) ==
  UNION {{PlainNode(Assign(f, sp)) : f \in [ks -> S], sp \in SymProps} : ks \in keys}
SymLevel1 ==
  Level0 \cup SymNodesOver(Level0, {{"a"}})
         \cup {LensMarker(n) : n \in SymNodesOver(Level0, {{"a"}})}
SymTrees == SymNodesOver(SymLevel1, {{"a"}, {"a", "b"}})

InitSym ==
  /\ def \in SymTrees
  /\ live = Undef
  /\ ref = Undef
  /\ hook = [s \in Scopes |-> "none"]
  /\ temp = Undef
  /\ counter = 0
  /\ mw = FALSE
  /\ immer = FALSE
  /\ watchers = NoWatchers
  /\ notified = 0
  /\ nextId = 1
  /\ trace = <<>>
  /\ frames = 0
  /\ ops = 0
  /\ thrown = FALSE
  /\ last = [op |-> "init", w |-> NoWrite]
  /\ pre = [live |-> Undef, temp |-> Undef, ref |-> Undef, counter |-> 0, notified |-> 0,
            nextId |-> 1, frames |-> 0]

SpecSym == InitSym /\ [][NextWalk]_vars

\* Definition trees holding values that are not plain objects: a number, a
\* function, an array of a lens marker, an array of a plain object holding a
\* lens marker, a class instance holding a lens marker; under the keys a or a
\* and b, directly, inside a plain object or inside what a lens initializer
\* returns, which may itself be an array.
ArrMarker == LensMarker(PlainNode([k \in {"a"} |-> Prim(1)]))
NonPlainValues ==
  {Prim(1), Fn(1),
   Arr(1, [k \in {"0"} |-> ArrMarker]),
   Arr(1, [k \in {"0"} |-> PlainNode([j \in {"a"} |-> ArrMarker])]),
   Instance(1, [k \in {"a"} |-> ArrMarker])}
ArrLevel0 == NonPlainValues \cup {ArrMarker}
ArrLevel1 ==
  ArrLevel0 \cup {PlainNode([k \in {"a"} |-> v]) : v \in ArrLevel0}
            \cup {LensMarker(PlainNode([k \in {"a"} |-> v])) : v \in ArrLevel0}
            \cup {LensMarker(v) : v \in NonPlainValues}
ArrTrees == UNION {{PlainNode(f) : f \in [ks -> ArrLevel1]} : ks \in {{"a"}, {"a", "b"}}}

InitArr ==
  /\ def \in ArrTrees
  /\ live = Undef
  /\ ref = Undef
  /\ hook = [s \in Scopes |-> "none"]
  /\ temp = Undef
  /\ counter = 0
  /\ mw = FALSE
  /\ immer = FALSE
  /\ watchers = NoWatchers
  /\ notified = 0
  /\ nextId = 1
  /\ trace = <<>>
  /\ frames = 0
  /\ ops = 0
  /\ thrown = FALSE
  /\ last = [op |-> "init", w |-> NoWrite]
  /\ pre = [live |-> Undef, temp |-> Undef, ref |-> Undef, counter |-> 0, notified |-> 0,
            nextId |-> 1, frames |-> 0]

SpecArr == InitArr /\ [][NextWalk]_vars

\* ------------------------------------------------------------------ properties
\* what get() returns now, and what it returned before the last call
Now == rootGet(M)
Before == IF mw /\ pre.counter # 0 THEN pre.temp ELSE pre.live

\* the program state before the last call
PreM == [live |-> pre.live, temp |-> pre.temp, counter |-> pre.counter, mw |-> mw,
         immer |-> immer, watch |-> watchers,
         notified |-> pre.notified, nextId |-> pre.nextId, trace |-> <<>>, hook |-> hook]

\* the root value the store hands to the root updater of the last call
Seen == IF mw THEN atomicEnter(PreM).temp ELSE pre.live

W == last.w
WasSet == last.op = "set"

\* the scoped value the last write started from and the one it left
OldScoped == scopedGet(W.scope, Before)
NewScoped == scopedGet(W.scope, Now)

\* the partial of the last write, as a property map
GivenPartial ==
  IF W.ps.kind = "fn" THEN Props(UserFn(W.ps.name, W.ps.key, OldScoped, 0)) ELSE W.ps.f

OnStrKeys(f) == [k \in StrKeys(f) |-> f[k]]

\* the last write recomputed a value shallow-equal to the current one
RecomputesSame ==
  /\ WasSet
  /\ OldScoped.t = "o"
  /\ LET next == IF W.replace = RT THEN GivenPartial ELSE Assign(OldScoped.f, GivenPartial)
     IN /\ StrKeys(next) = StrKeys(OldScoped.f)
        /\ \A k \in StrKeys(next) : ObjectIs(next[k], OldScoped.f[k])

\* the root setter hook "after" made no write of its own in the last call
HookQuiet == hook[Root] # "after" \/ Truthy(Field(Before, "flag"))

Count(e) == Cardinality({i \in 1..Len(trace) : trace[i].e = e})

RECURSIVE AllPaths(_)
AllPaths(x) ==
  {<<>>} \cup
  (IF x.t = "o"
   THEN UNION {{<<k>> \o q : q \in AllPaths(x.f[k])} : k \in DOMAIN x.f}
   ELSE {})

\* the scopes a write through s passes, innermost first
RECURSIVE ChainUp(_)
ChainUp(s) == IF s = Root THEN <<Root>> ELSE <<s>> \o ChainUp(ParentOf(s))

Reverse(sq) == [i \in 1..Len(sq) |-> sq[Len(sq) + 1 - i]]

\* C1: with the atomic middleware no subscriber is notified while the fn of a
\* ctx.atomic(fn) call is running, whatever writes it makes, and exactly one
\* notification fires when the outermost call returns.
C1_OneNotificationAfterFn ==
  mw =>
    /\ frames > 0 => notified = pre.notified
    /\ (last.op = "return" /\ frames = 0) =>
         /\ notified = pre.notified + 1
         /\ trace[Len(trace)].e = "notify"
         /\ Count("notify") = 1

C1_Witness ==
  /\ mw /\ last.op = "return" /\ frames = 0
  /\ ops >= 3 /\ notified = 1
  /\ ~SameContent(getIn(live, Nested), getIn(findLensAndCreate(DefTree(HooksOf("plain"))), Nested))
  /\ ~SameContent(getIn(live, Leaf), getIn(findLensAndCreate(DefTree(HooksOf("plain"))), Leaf))

\* C2: atomic calls nested at any depth, the implicit ones around every set
\* included, commit to the real store exactly once, as the last thing the
\* outermost call does; a call that returns inside another commits nothing and
\* leaves the real store as it was.
C2_OneCommitAtOutermost ==
  mw =>
    /\ counter = frames
    /\ (last.op \in {"set", "return"} /\ frames = 0) =>
         /\ Count("commit") = 1
         /\ Len(trace) >= 2 /\ trace[Len(trace) - 1].e = "commit"
    /\ (last.op = "atomic" \/ frames > 0) =>
         /\ Count("commit") = 0
         /\ live = pre.live

C2_Witness ==
  /\ mw /\ last.op = "return" /\ frames = 1 /\ pre.frames = 2
  /\ ~SameContent(temp, live)

\* C3: every read (get, a lens getter) returns the shadow state while a session
\* is active and the live state otherwise, and it shows the write just made
\* through that scope.
C3_ReadYourOwnWrite ==
  /\ \A s \in Scopes :
       scopedGet(s, Now) = getIn(IF mw /\ frames > 0 THEN temp ELSE live, s)
  /\ (WasSet /\ HookQuiet) =>
       \A k \in DOMAIN GivenPartial : Field(NewScoped, k) = GivenPartial[k]

C3_Witness ==
  /\ mw /\ frames > 0 /\ WasSet /\ W.scope = Nested
  /\ ~SameContent(getIn(temp, Nested), getIn(live, Nested))
  /\ NewScoped = getIn(temp, Nested)

C5_AtomicNoOpSilent ==
  /\ (mw /\ RecomputesSame /\ HookQuiet /\ pre.frames = 0) =>
       (live = pre.live /\ notified = pre.notified)
  /\ (mw /\ last.op = "return" /\ frames = 0 /\ SameContent(pre.temp, pre.live)) =>
       (live = pre.live /\ notified = pre.notified)

\* C6: a write through the setter of scope p leaves every subtree that is off
\* p (at a path that neither is a prefix of p nor extends p) the same object.
C6_PathIsolation ==
  (WasSet /\ HookQuiet) =>
    \A q \in AllPaths(Before) :
      (~IsPrefix(q, W.scope) /\ ~IsPrefix(W.scope, q)) => getIn(Now, q) = getIn(Before, q)

C6_Witness ==
  /\ WasSet /\ HookQuiet /\ W.scope = Leaf
  /\ ~SameContent(NewScoped, OldScoped)
  /\ getIn(Now, <<"deep", "pad">>) = getIn(Before, <<"deep", "pad">>)
  /\ getIn(Now, <<"deep">>) # getIn(Before, <<"deep">>)

\* C7: on a plain-object scoped value, set(p) leaves the shallow merge of the
\* old value and p, and set(p, true) leaves exactly p.
C7_MergeOrReplace ==
  (WasSet /\ W.ps.kind = "obj" /\ OldScoped.t = "o") =>
    /\ NewScoped.t = "o"
    /\ OnStrKeys(NewScoped.f) =
         (IF W.replace = RT THEN OnStrKeys(W.ps.f)
          ELSE OnStrKeys(Assign(OldScoped.f, W.ps.f)))

C7_Witness ==
  /\ WasSet /\ W.ps.kind = "obj" /\ W.replace = RT /\ W.scope = Sub
  /\ DOMAIN OldScoped.f = {"id", "name", "nested"}
  /\ NewScoped.f = W.ps.f

\* C8: set(f, replace) leaves what set(f(v), replace) leaves, v being the
\* scoped value current when the root updater runs.
C8_FunctionForm ==
  (WasSet /\ W.ps.kind = "fn") =>
    LET v == scopedGet(W.scope, Seen)
        r == lensSet(PreM, W.scope,
                     Write(W.scope, ObjPartial(Props(UserFn(W.ps.name, W.ps.key, v, 0))),
                           W.replace, W.args))
    IN /\ r.live = live
       /\ r.temp = temp
       /\ r.notified = notified

C8_Witness ==
  /\ WasSet /\ W.ps.kind = "fn" /\ W.ps.name = "bump" /\ W.scope = Sub
  /\ Field(OldScoped, "id") = Prim(2) /\ Field(NewScoped, "id") = Prim(1)
  /\ Field(NewScoped, "name") = Prim(1)

\* C9: a call of a path-scoped setter, and of every path-scoped setter it
\* passes through, calls its parent setter exactly once, with replace false
\* and the extra arguments of the call unchanged.
C9_ParentSetterCall ==
  WasSet =>
    \A i \in 1..Len(ChainUp(W.scope)) :
      LET s == ChainUp(W.scope)[i]
          calls == {j \in 1..Len(trace) : trace[j].e = "set" /\ trace[j].s = s}
      IN s # Root =>
           /\ Cardinality(calls) = 1
           /\ \A j \in calls : trace[j].replace = RF /\ trace[j].args = W.args

C9_Witness ==
  /\ WasSet /\ W.scope = Nested /\ W.replace = RT /\ W.args = <<"x", "y">>
  /\ Count("set") = 3

\* C10: the hooks of a write run in the order: setter hooks up to their commit
\* innermost first, then the postprocess hooks innermost first, then the rest
\* of the setter hooks outermost first.
IsHookEvent(e) == e.e \in {"before", "postprocess", "after"}
HookTrace ==
  LET h == SelectSeq(trace, IsHookEvent) IN [i \in 1..Len(h) |-> <<h[i].e, h[i].s>>]
HasSetterHook(s) == hook[s] = "log"
HasPostprocess(s) ==
  LET mv == Field(scopedGet(s, Before), MetaKey)
  IN mv.t = "m" /\ mv.pp # "none" /\ ~(s = W.scope /\ W.replace = RT)
ExpectedHookTrace ==
  LET up == ChainUp(W.scope)
      bs == SelectSeq(up, HasSetterHook)
      ps == SelectSeq(up, HasPostprocess)
  IN [i \in 1..Len(bs) |-> <<"before", bs[i]>>]
     \o [i \in 1..Len(ps) |-> <<"postprocess", ps[i]>>]
     \o [i \in 1..Len(bs) |-> <<"after", Reverse(bs)[i]>>]

C10_HookOrder == WasSet => HookTrace = ExpectedHookTrace

C10_Witness ==
  /\ WasSet /\ W.scope = Nested /\ Len(HookTrace) = 9
  /\ HookTrace[1] = <<"before", Nested>> /\ HookTrace[4] = <<"postprocess", Nested>>
  /\ HookTrace[9] = <<"after", Nested>>

\* C11: a single write through a lens runs the setter hook of that lens, of
\* every enclosing lens and of the root exactly once each, and the hook of no
\* other lens. A scope's set is atomic(() => setterFn(commit, ctx)), so every
\* "set" event of a scope is one run of its setter hook; the README's hook
\* also logs "before" when it starts and "after" when its commit returned.
HookRuns(s) == Cardinality({i \in 1..Len(trace) : trace[i].e = "set" /\ trace[i].s = s})
HookLogs(e, s) == Cardinality({i \in 1..Len(trace) : trace[i].e = e /\ trace[i].s = s})
C11_HookOncePerScopeOnPath ==
  (WasSet /\ HookQuiet) =>
    \A s \in Scopes :
      LET n == IF IsPrefix(s, W.scope) THEN 1 ELSE 0
      IN /\ HookRuns(s) = n
         /\ hook[s] = "log" => (HookLogs("before", s) = n /\ HookLogs("after", s) = n)

C11_Witness ==
  /\ WasSet /\ W.scope = Sub /\ hook[Nested] = "log" /\ hook[Sub] = "log"
  /\ HookLogs("before", Sub) = 1 /\ HookLogs("before", Root) = 1
  /\ HookLogs("before", Nested) = 0 /\ HookRuns(Leaf) = 0
  /\ ~SameContent(NewScoped, OldScoped)

\* C12: the root setter hook of the test "makes `setter`s atomic" commits and
\* then, the flag being unset, writes the flag through the root's set. With
\* the atomic middleware one lens write therefore gives one notification, the
\* last thing the call does, and the state notified carries the lens's change
\* and the flag; without it every state-changing write notifies on its own
\* (two notifications when the lens write changed the state).
FlaggerWrites ==
  /\ WasSet /\ W.scope # Root /\ hook[Root] = "after"
  /\ ~Truthy(Field(Before, "flag"))
C12_SetterHookAtomic ==
  FlaggerWrites =>
    /\ Truthy(Field(Now, "flag"))
    /\ \A k \in DOMAIN GivenPartial : Field(NewScoped, k) = GivenPartial[k]
    /\ (mw /\ pre.frames = 0) =>
         /\ notified = pre.notified + 1
         /\ Count("notify") = 1 /\ trace[Len(trace)].e = "notify"
         /\ Truthy(Field(live, "flag"))
         /\ \A k \in DOMAIN GivenPartial : Field(getIn(live, W.scope), k) = GivenPartial[k]
    /\ ~mw => notified = pre.notified + (IF RecomputesSame THEN 1 ELSE 2)

C12_Witness ==
  /\ mw /\ FlaggerWrites /\ pre.frames = 0 /\ W.scope = Sub
  /\ notified = pre.notified + 1
  /\ Field(getIn(pre.live, Sub), "id") # Field(getIn(live, Sub), "id")
  /\ ~Truthy(Field(pre.live, "flag")) /\ Truthy(Field(live, "flag"))

\* C13: the Root State an atomic session commits has the content of the
\* reference store's state (the same writes, in the same order, one by one
\* without atomic), and while a session is active the real store keeps its
\* state and notifies no subscriber.
C13_SessionEqualsSequential ==
  mw =>
    /\ frames = 0 => SameContent(live, ref)
    /\ (frames > 0 \/ last.op = "atomic") =>
         (live = pre.live /\ notified = pre.notified)

\* C14: when a session starts (counter 0 to 1) the shadow state has exactly the
\* keys and values of the live Root State: what get() returns first in the fn
\* of ctx.atomic(fn), and what the root updater of a set is first given.
C14_ShadowIsSnapshot ==
  (mw /\ pre.counter = 0) =>
    /\ last.op = "atomic" => (SameContent(temp, live) /\ SameContent(Now, live))
    /\ WasSet => SameContent(Seen, pre.live)

\* C15: the counter of atomic goes down on every exit of an atomic call, an
\* exit by an error included: it is never negative, it is the number of atomic
\* calls in progress (zero when there is none), so once an error has left
\* every call reads return the live Root State, and a session started after an
\* error keeps the real store untouched while it runs and commits once, with
\* one notification, when it returns.
C15_CounterSurvivesErrors ==
  mw =>
    /\ counter >= 0 /\ counter = frames
    /\ frames = 0 => Now = live
    /\ thrown =>
         /\ frames > 0 => (Now = temp /\ live = pre.live /\ notified = pre.notified)
         /\ (last.op = "return" /\ frames = 0) =>
              /\ Count("commit") = 1 /\ notified = pre.notified + 1
              /\ \A k \in DOMAIN Props(pre.temp) : Field(live, k) = Field(pre.temp, k)

C15_Witness ==
  /\ mw /\ thrown /\ last.op = "return" /\ frames = 0 /\ counter = 0
  /\ ops = 3 /\ notified = 2
  /\ ~SameContent(pre.live, live)

\* C16: an error thrown inside a session leaves the Root State as it was before
\* the session (the shadow state is not committed) and notifies no subscriber.
C16_ErrorCommitsNothing ==
  (mw /\ last.op = "throw") =>
    /\ SameContent(live, pre.live)
    /\ notified = pre.notified

\* C17: the state withLenses returns has, at every level, the keys of the
\* definition tree with every marker replaced by the object its initializer
\* returns, and the same numbers; no marker is left in it, whether it was
\* inside a lens or inside plain objects; every marker's initializer was
\* called exactly once.
\* the value of a definition tree at a path, a marker standing for the object
\* its initializer returns
Resolved(x) == IF isLens(x) THEN x.init ELSE x
RECURSIVE defIn(_, _)
defIn(x, path) ==
  IF path = <<>> THEN Resolved(x)
  ELSE defIn(Field(Resolved(x), Head(path)), Tail(path))
RECURSIVE DefPaths(_)
DefPaths(x) ==
  {<<>>} \cup
  (IF Resolved(x).t = "o"
   THEN UNION {{<<k>> \o q : q \in DefPaths(Resolved(x).f[k])} : k \in DOMAIN Resolved(x).f}
   ELSE {})
RECURSIVE MarkerPaths(_)
MarkerPaths(x) ==
  IF Resolved(x).t = "o"
  THEN UNION {(IF isLens(Resolved(x).f[k]) THEN {<<k>>} ELSE {})
              \cup {<<k>> \o q : q \in MarkerPaths(Resolved(x).f[k])}
              : k \in DOMAIN Resolved(x).f}
  ELSE {}
KeysOf(x) == DOMAIN Props(x)

C17_ShapePreserved ==
  last.op = "create" =>
    /\ AllPaths(live) = DefPaths(def)
    /\ \A q \in DefPaths(def) :
         /\ ~isLens(getIn(live, q))
         /\ getIn(live, q).t = defIn(def, q).t
         /\ KeysOf(getIn(live, q)) = KeysOf(defIn(def, q))
         /\ getIn(live, q).t = "p" => getIn(live, q) = defIn(def, q)
    /\ BagToSet(initCalls(def, <<>>)) = MarkerPaths(def)
    /\ \A p \in MarkerPaths(def) : CopiesIn(p, initCalls(def, <<>>)) = 1

C17_Witness ==
  /\ last.op = "create"
  /\ isLens(def.f["a"]) /\ isLens(def.f["a"].init.f["a"])
  /\ "b" \in DOMAIN def.f /\ def.f["b"].t = "o" /\ isLens(def.f["b"].f["a"])
  /\ getIn(live, <<"a", "a", "a">>) = Prim(1)
  /\ getIn(live, <<"b", "a", "b">>) = Prim(1)
  /\ MarkerPaths(def) = {<<"a">>, <<"a", "a">>, <<"b", "a">>}

\* C18: the context a lens initializer receives has rootPath = the keys from
\* the root to the lens and relativePath = the keys from the nearest enclosing
\* lens (from the root when there is none) to the lens; its set and get are the
\* initializer's first two arguments, and its api, like the third argument,
\* is the api withLenses was given. Every marker gets one such call.
EnclosingLens(x, p) ==
  LET above == {q \in MarkerPaths(x) : IsPrefix(q, p) /\ q # p}
  IN IF above = {} THEN <<>>
     ELSE CHOOSE q \in above : \A r \in above : Len(r) <= Len(q)
C18_InitializerContext ==
  last.op = "create" =>
    /\ {c.ctx.rootPath : c \in lensCalls(def, RootCtx)} = MarkerPaths(def)
    /\ Cardinality(lensCalls(def, RootCtx)) = Cardinality(MarkerPaths(def))
    /\ \A c \in lensCalls(def, RootCtx) :
         /\ EnclosingLens(def, c.ctx.rootPath) \o c.ctx.relativePath = c.ctx.rootPath
         /\ c.ctx.set = c.set
         /\ c.ctx.get = c.get
         /\ c.ctx.api = StoreApi /\ c.api = StoreApi
    /\ {[rootPath |-> c.ctx.rootPath, relativePath |-> c.ctx.relativePath]
          : c \in lensCalls(def, RootCtx)}
       = {[rootPath |-> c.rootPath, relativePath |-> c.relativePath]
          : c \in lensContexts(def, <<>>, <<>>, <<>>)}

C18_Witness ==
  /\ last.op = "create"
  /\ def = DefTree(HooksOf("readme"))
  /\ \E c \in lensCalls(def, RootCtx) :
       /\ c.ctx.rootPath = Leaf /\ c.ctx.relativePath = Leaf
       /\ c.ctx.set = c.set /\ c.set.fn = "_set" /\ c.set.path = Leaf
  /\ \E c \in lensCalls(def, RootCtx) :
       /\ c.ctx.rootPath = Nested /\ c.ctx.relativePath = <<"nested">>
       /\ c.ctx.get = c.get /\ c.get.of = Closure("_get", StoreGet, Sub)

\* C19: the getter of every realized lens returns the value at the lens's
\* rootPath in the current Root State, and a write through the setter of a
\* lens leaves the value at every path that does not overlap its rootPath
\* (neither a prefix of it nor below it) as it was, no such path appearing or
\* disappearing.
C19_LensAddressesRootPath ==
  /\ \A s \in Scopes \ {Root} : scopedGet(s, Now) = getIn(Now, s)
  /\ (WasSet /\ HookQuiet /\ W.scope # Root) =>
       \A q \in AllPaths(Before) \cup AllPaths(Now) :
         (~IsPrefix(q, W.scope) /\ ~IsPrefix(W.scope, q)) =>
           /\ q \in AllPaths(Before) /\ q \in AllPaths(Now)
           /\ SameContent(getIn(Now, q), getIn(Before, q))

C19_Witness ==
  /\ WasSet /\ HookQuiet /\ W.scope = Nested /\ ops = 3
  /\ Field(scopedGet(Nested, Now), "id") = Prim(2)
  /\ Field(getIn(Before, Nested), "id") = Prim(1)
  /\ Field(getIn(Now, Sub), "id") = Prim(2) /\ Field(getIn(Now, Leaf), "value") = Prim(2)
  /\ getIn(Now, Leaf) = getIn(Before, Leaf)

\* C20: a chain of lenses createLens(...createLens(set, get, p), q) leaves the
\* Root State that createLens(set, get, p ++ q) leaves, and is a no-op exactly
\* when that one is, for every state and every write.
ChainAgrees ==
  /\ SameContent(live, ref)
  /\ (live = pre.live) <=> (ref = pre.ref)
C20_ChainEqualsConcat ==
  (last.op = "chain" /\ pre.live = pre.ref) => ChainAgrees

\* C20, amended: the same, provided no value the chain passes on its way (the
\* value at p, at the path of every lens of the chain but the last) carries a
\* [meta].postprocess; the chain runs that hook, the single lens does not.
RECURSIVE PathsAbove(_, _)
PathsAbove(chain, above) ==
  IF Len(chain) <= 1 THEN {}
  ELSE {above \o Head(chain)} \cup PathsAbove(Tail(chain), above \o Head(chain))
PassesPostprocess ==
  \E q \in PathsAbove(last.chain, <<>>) :
    LET mv == Field(getIn(pre.live, q), MetaKey)
    IN mv.t = "m" /\ mv.pp # "none"
C20_ChainEqualsConcatNoHook ==
  (last.op = "chain" /\ pre.live = pre.ref /\ ~PassesPostprocess) => ChainAgrees

C20_Witness ==
  /\ last.op = "chain" /\ pre.live = pre.ref /\ ~PassesPostprocess
  /\ Len(last.chain) = 3 /\ W.replace = RT /\ ops = 2
  /\ DOMAIN getIn(pre.live, FullPath).f = {"id", "value", MetaKey}
  /\ DOMAIN getIn(live, FullPath).f = {"id"}
  /\ live # pre.live /\ ref # pre.ref /\ live = ref

\* C21: a changing write through a lens below plain objects (deep.box.leaf)
\* or below another lens leaves the old Root State with the value at the
\* lens's path replaced by the merged value (by the partial with replace); the
\* root and every object on the path are objects allocated during the call,
\* every key off the path holds the object it held.
Prefixes(p) == {SubSeq(p, 1, n) : n \in 0..Len(p)}
MergedValue ==
  IF OldScoped.t = "o" /\ W.replace # RT THEN Assign(OldScoped.f, GivenPartial)
  ELSE GivenPartial
ChangingLensWrite == WasSet /\ HookQuiet /\ W.scope # Root /\ ~RecomputesSame
C21_CopyOnWriteAlongPath ==
  ChangingLensWrite =>
    /\ SameContent(Now, setIn(Before, W.scope, Obj(0, MergedValue), 0))
    /\ \A q \in Prefixes(W.scope) :
         /\ getIn(Now, q).t = "o"
         /\ getIn(Now, q).id >= pre.nextId
         /\ \A k \in DOMAIN getIn(Now, q).f :
              ~IsPrefix(Append(q, k), W.scope) /\ q # W.scope =>
                getIn(Now, Append(q, k)) = getIn(Before, Append(q, k))

C21_Witness ==
  /\ ChangingLensWrite /\ W.scope = Leaf /\ W.ps.kind = "obj" /\ W.replace = RU
  /\ Field(getIn(Before, Leaf), "value") = Prim(2)
  /\ getIn(Now, Leaf).f = [k \in {"value"} |-> Prim(1)]
  /\ getIn(Now, <<"deep", "pad">>) = getIn(Before, <<"deep", "pad">>)
  /\ getIn(Now, Sub) = getIn(Before, Sub)
  /\ getIn(Now, <<"deep", "box">>).id # getIn(Before, <<"deep", "box">>).id

\* C23: a write through the root set with replace = true leaves the Root
\* State with exactly the keys and values of the partial (keys the partial does
\* not name are dropped), without and with the atomic middleware.
RootReplaceWrite == WasSet /\ HookQuiet /\ W.scope = Root /\ W.replace = RT
C23_RootReplaceWholesale ==
  RootReplaceWrite => SameContent(Now, Obj(0, GivenPartial))

\* C22: on a write through a setter whose value carries [meta].postprocess
\* the hook is called once, with the next value (the old value with the
\* partial merged in; in a draft container the draft after the partial was
\* assigned to it), the value committed before the write and the extra
\* arguments of the call, and what it returns is merged into the value the
\* write leaves.
OwnPP == Field(OldScoped, MetaKey)
PPWrite ==
  /\ WasSet /\ HookQuiet
  /\ OldScoped.t = "o" /\ OwnPP.t = "m" /\ OwnPP.pp # "none"
  /\ immer \/ W.replace # RT
PPCalls == {i \in 1..Len(trace) : trace[i].e = "postprocess" /\ trace[i].s = W.scope}
WrittenProps ==
  IF W.ps.kind = "fn" /\ W.ps.name = "mutate"
  THEN [k \in {W.ps.key} |-> Prim(2)]
  ELSE GivenPartial
PPReturns(state) ==
  IF OwnPP.pp = "join"
  THEN [k \in {"value"} |-> Plus(Field(OldScoped, "value"), Field(state, "value"))]
  ELSE EmptyF
DraftWrite == WasSet /\ immer /\ OldScoped.t = "o"
DraftResult == updater(Root, W, toDraft(Before), Before, pre.nextId)
DraftNext ==
  LET assigned == Assign(OldScoped.f, WrittenProps)
  IN Obj(0, Assign(assigned, IF OwnPP.t = "m" THEN PPReturns(Obj(0, assigned)) ELSE EmptyF))
C24_DraftWriteApplies ==
  DraftWrite =>
    /\ DraftResult.val = Undef
    /\ SameContent(getIn(finalize(DraftResult.draft), W.scope), DraftNext)
    /\ SameContent(Now, setIn(Before, W.scope, DraftNext, 0))
    /\ IF SameContent(Now, Before)
       THEN Now = Before /\ notified = pre.notified
       ELSE /\ notified = pre.notified + 1
            /\ \A q \in Prefixes(W.scope) :
                 /\ getIn(Now, q).id >= pre.nextId
                 /\ \A k \in DOMAIN getIn(Now, q).f :
                      ~IsPrefix(Append(q, k), W.scope) /\ q # W.scope =>
                        getIn(Now, Append(q, k)) = getIn(Before, Append(q, k))

C24_Witness ==
  /\ DraftWrite /\ W.scope = Sub /\ W.ps.name = "inc" /\ OwnPP.t = "m" /\ OwnPP.pp = "log"
  /\ ops = 2
  /\ Field(OldScoped, "id") = Prim(2)
  /\ Field(NewScoped, "id") = Prim(3)
  /\ getIn(Now, Leaf) = getIn(Before, Leaf)

\* C25: a marker made outside withLenses and realized in two stores, or at
\* two places of one tree, gives slices that share nothing: a write through
\* the set one realization was given changes the value at that realization's
\* path in that realization's store as the write says, and leaves the other
\* store, and every path of its own store beside its own, as they were.
TwinStore(n) == IF n = 1 THEN live ELSE ref
TwinBefore(n) == IF n = 1 THEN pre.live ELSE pre.ref
WasTwin == last.op = "twin"
TwinOld == getIn(TwinBefore(last.store), W.scope)
TwinGiven ==
  IF W.ps.kind = "fn" THEN Props(UserFn(W.ps.name, W.ps.key, TwinOld, 0)) ELSE W.ps.f
TwinNext ==
  IF W.replace = RT \/ TwinOld.t # "o" THEN TwinGiven ELSE Assign(TwinOld.f, TwinGiven)
C25_MarkerSlicesIndependent ==
  WasTwin =>
    /\ TwinStore(3 - last.store) = TwinBefore(3 - last.store)
    /\ SameContent(TwinStore(last.store),
                   setIn(TwinBefore(last.store), W.scope, Obj(0, TwinNext), 0))
    /\ \A q \in AllPaths(TwinBefore(last.store)) :
         ~IsPrefix(q, W.scope) /\ ~IsPrefix(W.scope, q) =>
           getIn(TwinStore(last.store), q) = getIn(TwinBefore(last.store), q)

C25_Witness ==
  /\ WasTwin /\ last.store = 2 /\ W.scope = <<"b">>
  /\ def = PlainNode([k \in {"a", "b"} |-> TwinM0])
  /\ getIn(ref, <<"b", "a">>) = Prim(2)
  /\ getIn(ref, <<"a", "a">>) = Prim(1)
  /\ getIn(live, <<"b", "a">>) = Prim(1)

\* C26: every property under a symbol key of a plain object of the
\* definition tree is in the composed state under the same key of the same
\* object with the value it had, even when that value is a lens marker or
\* holds one: the walker does not look inside it and calls no initializer
\* for it.
RECURSIVE StrPaths(_)
StrPaths(x) ==
  {<<>>} \cup
  (IF x.t = "o"
   THEN UNION {{<<k>> \o q : q \in StrPaths(x.f[k])} : k \in StrKeys(x.f)}
   ELSE {})
SymbolsOf(x) == (DOMAIN Props(x)) \cap SymbolKeys
C26_SymbolPropsCopied ==
  last.op = "create" =>
    /\ \A q \in StrPaths(live) :
         /\ SymbolsOf(getIn(live, q)) = SymbolsOf(defIn(def, q))
         /\ \A k \in SymbolsOf(getIn(live, q)) :
              getIn(live, q).f[k] = defIn(def, q).f[k]
    /\ \A p \in BagToSet(initCalls(def, <<>>)) : \A i \in 1..Len(p) : p[i] \notin SymbolKeys

C26_Witness ==
  /\ last.op = "create"
  /\ Field(live, SymKey) = PlainNode([k \in {"a"} |-> SymMarker])
  /\ Field(Field(live, "a"), SymKey) = SymMarker
  /\ isLens(Field(def, "a"))
  /\ Field(Field(live, "b"), MetaKey) = SymMarker
  /\ BagToSet(initCalls(def, <<>>)) = {<<"a">>}

\* C28: on a write through a lens whose setter hook is watch(selector,
\* effect), or through a lens inside it, the hook calls its commit callback
\* once, and afterwards calls effect(next, prev) once if the value selected
\* from the lens's state after the write is not the one selected before
\* the write (Object.is), with these two values, and not at all if it is.
WatchWrite(s) == WasSet /\ hook[s] = "watch" /\ IsPrefix(s, W.scope)
SelectedNow(id, s) == Selector(id, scopedGet(s, Now))
SelectedBefore(id, s) == Selector(id, scopedGet(s, Before))
Callbacks(s) == {i \in 1..Len(trace) : trace[i].e = "callback" /\ trace[i].s = s}
Effects(id) == {i \in 1..Len(trace) : trace[i].e = "effect" /\ trace[i].id = id}
EffectIffChanged(id, s) ==
  IF ObjectIs(SelectedNow(id, s), SelectedBefore(id, s))
  THEN Effects(id) = {}
  ELSE /\ Cardinality(Effects(id)) = 1
       /\ \A i \in Effects(id) :
            /\ trace[i].state = SelectedNow(id, s)
            /\ trace[i].prevState = SelectedBefore(id, s)
            /\ \A j \in Callbacks(s) : j < i
C28_WatchFiresOnChange ==
  \A s \in {Sub, Nested} :
    WatchWrite(s) =>
      /\ Cardinality(Callbacks(s)) = 1
      /\ EffectIffChanged(WatcherOf(s), s)

\* C29: with combineWatchers(w1, w2) as the setter hook of the root, every
\* write calls the commit callback once, and the effect of each watcher is
\* called once if the write changed the value that watcher selects, with
\* the value after and the value before the write, and not at all if it did
\* not.
CombinedWrite == WasSet /\ hook[Root] = "combine"
C29_CombinedWatchersFire ==
  CombinedWrite =>
    /\ Cardinality(Callbacks(Root)) = 1
    /\ \A n \in 1..Len(CombinedWatchers) : EffectIffChanged(CombinedWatchers[n], Root)

\* C27: a subscription made with subscribe calls effect(next, prev) on a
\* notification of the store exactly when the value selected from the new
\* state is not equal, under its equalityFn, to the value last handed to
\* effect (the value selected when it subscribed, before the first call), and
\* prev is that value; the value it keeps is always that value; with
\* fireImmediately effect is called once with (curr, curr) by subscribe itself,
\* without it not at all; once unsubscribed, effect is not called again.
SubEffects(k) == {i \in 1..Len(trace) : trace[i].e = "effect" /\ trace[i].id = k}
SubFires(k) ==
  /\ pre.watchers.status[k] = "on"
  /\ ~SubEquality(k, SubSelector(k, live), pre.ref[k])
C27_SubscribeReportsChanges ==
  \A k \in SubIds :
    /\ watchers.status[k] = "on" => watchers.curr[k] = ref[k]
    /\ last.op = "write" =>
         IF SubFires(k)
         THEN /\ Cardinality(SubEffects(k)) = 1
              /\ \A i \in SubEffects(k) :
                   /\ trace[i].state = SubSelector(k, live)
                   /\ trace[i].prevState = pre.ref[k]
         ELSE SubEffects(k) = {}
    /\ last.op = "subscribe" =>
         IF last.k = k /\ SubFireImmediately(k)
         THEN /\ Cardinality(SubEffects(k)) = 1
              /\ \A i \in SubEffects(k) :
                   /\ trace[i].state = SubSelector(k, live)
                   /\ trace[i].prevState = SubSelector(k, live)
         ELSE SubEffects(k) = {}
    /\ last.op \in {"write", "subscribe", "unsubscribe"} /\ pre.watchers.status[k] = "off" =>
         SubEffects(k) = {}

C27_Witness ==
  /\ last.op = "write"
  /\ SubFires(2)
  /\ pre.ref[2] = Str(<<"a", "b", "c">>)
  /\ SubSelector(2, pre.live) = Str(<<"d", "e", "f">>)
  /\ SubSelector(2, live) = Str(<<"a", "b", "c", "d", "e", "f">>)
  /\ pre.watchers.status[1] = "off"
  /\ SubSelector(1, live) # pre.ref[1]

\* C30: an error thrown by a setter hook or by the function given as the
\* partial reaches the caller of the setter, with or without the atomic
\* middleware: the call ends with the error exactly when one was thrown, it is
\* thrown whenever a hook on the way to the store throws or the partial does
\* and no hook below stopped the write, and no setter runs after it; without
\* the atomic middleware, when the error comes from a hook that throws before
\* its commit callback, the store's state is the object it was and no
\* subscriber was notified.
Throws == {i \in 1..Len(trace) : trace[i].e = "throw"}
HookThrowsFirst(w) ==
  \E i \in 1..Len(ChainUp(w.scope)) : hook[ChainUp(w.scope)[i]] = "throws"
SomethingThrows(w) ==
  \/ ThrowsFn(w)
  \/ \E i \in 1..Len(ChainUp(w.scope)) : hook[ChainUp(w.scope)[i]] \in {"throws", "late"}
C30_ErrorsReachTheCaller ==
  last.op = "set" =>
    /\ thrown <=> Throws # {}
    /\ SomethingThrows(last.w) => thrown
    /\ Cardinality(Throws) <= 1
    /\ \A i \in Throws : \A j \in (i + 1)..Len(trace) :
         trace[j].e \notin {"set", "before", "after", "postprocess", "throw"}
    /\ (~mw /\ HookThrowsFirst(last.w)) =>
         /\ live = pre.live
         /\ notified = pre.notified

C30_Witness ==
  /\ last.op = "set"
  /\ ~mw
  /\ thrown
  /\ last.w.scope = Nested
  /\ hook[Sub] = "throws"
  /\ ops = 3
  /\ live = pre.live
  /\ ~SameContent(live, withLenses(def))

\* C31: with a setter hook that calls its commit callback twice the atomic
\* counter still equals the number of running ctx.atomic calls after every
\* call, so it is zero once the outermost write returned; under atomic that
\* write makes one commit to the real store, as its last act, and at most one
\* notification, although the root's updater ran more than once.
TwiceOnPath(w) ==
  \E i \in 1..Len(ChainUp(w.scope)) : hook[ChainUp(w.scope)[i]] = "twice"
StoreSets == {i \in 1..Len(trace) : trace[i].e = "set" /\ trace[i].s = Root}
C31_TwiceKeepsCounter ==
  /\ counter = (IF mw THEN frames ELSE 0)
  /\ (mw /\ last.op = "set" /\ frames = 0) =>
       /\ counter = 0
       /\ Count("commit") = 1
       /\ trace[Len(trace) - 1].e = "commit" \/ trace[Len(trace)].e = "commit"
       /\ notified - pre.notified <= 1
  /\ (mw /\ last.op = "set" /\ frames > 0) =>
       /\ Count("commit") = 0
       /\ live = pre.live

C31_Witness ==
  /\ mw
  /\ last.op = "set"
  /\ frames = 0
  /\ TwiceOnPath(last.w)
  /\ hook[Root] = "twice" /\ hook[Sub] = "twice"
  /\ last.w.scope = Nested
  /\ Cardinality(StoreSets) >= 2
  /\ live # pre.live

\* C32: a write through createLens(set, get, []) and the same write through
\* createLens(set, get), on stores with the same state, leave the stores with
\* the same state and hand the stores' set a replace argument of the same
\* truth value (false and undefined mean the same to the store).
C32_EmptyPathIsPathless ==
  last.op = "empty" =>
    /\ SameContent(live, ref)
    /\ (last.out = RT) <=> (last.refOut = RT)

\* C33: a write through a lens whose value is not a plain object (a number,
\* an array, undefined) makes the value given (the partial, or what the
\* function returned) the lens's value, that very value and nothing merged
\* into it, whatever replace is, and calls no postprocess; when the value
\* given is the value the lens has (Object.is) the write changes nothing: the
\* store keeps its state object and notifies nobody.
PrimOld == getIn(pre.live, last.w.scope)
PrimGiven == ApplyPartial(last.w.ps, PrimOld, pre.nextId)
NonPlainWrite == last.op = "prim" /\ ~isPlainObject(PrimOld)
C33_NonPlainTakesPartial ==
  NonPlainWrite =>
    /\ Count("postprocess") = 0
    /\ IF ObjectIs(PrimGiven, PrimOld)
       THEN live = pre.live /\ notified = pre.notified
       ELSE /\ getIn(live, last.w.scope) = PrimGiven
            /\ live # pre.live
            /\ notified = pre.notified + 1
            /\ \A k \in DOMAIN live.f : k # Head(last.w.scope) => live.f[k] = pre.live.f[k]

C33_Witness ==
  /\ NonPlainWrite
  /\ PrimOld.t = "a"
  /\ last.w.ps.kind = "obj"
  /\ last.w.replace = RF
  /\ MetaKey \in DOMAIN last.w.ps.f
  /\ getIn(live, last.w.scope) = PrimGiven
  /\ pre.live # def

\* C34: in the state withLenses returns, every value of the definition that
\* is not a plain object (a number, a function, an array, a class instance),
\* whether it sits under a key of a plain object or is what a lens
\* initializer returned, is that very value, with the lens markers it holds
\* still markers; initializers are called for the markers reached through
\* plain objects only.
C34_NonPlainUntouched ==
  last.op = "create" =>
    /\ \A q \in StrPaths(live) :
         defIn(def, q).t # "o" => getIn(live, q) = defIn(def, q)
    /\ BagToSet(initCalls(def, <<>>)) = MarkerPaths(def)
    /\ \A p \in BagToSet(initCalls(def, <<>>)) :
         \A i \in 0..(Len(p) - 1) : defIn(def, SubSeq(p, 1, i)).t = "o"

C34_Witness ==
  /\ last.op = "create"
  /\ Field(def, "a") = Arr(1, [k \in {"0"} |-> PlainNode([j \in {"a"} |-> ArrMarker])])
  /\ Field(live, "a") = Field(def, "a")
  /\ isLens(Field(def, "b"))
  /\ getIn(live, <<"b", "a">>) = Instance(1, [k \in {"a"} |-> ArrMarker])
  /\ BagToSet(initCalls(def, <<>>)) = {<<"b">>}

\* C35: without the atomic middleware ctx.atomic(fn) of a lens warns once and
\* starts fn at once, and batches nothing: the shadow state and the counter
\* are never used, every write made while fn runs reaches the real store
\* within its own set call with one notification for each store write that
\* changed the state, and the return of fn commits and notifies nothing.
C35_StubAtomicNoBatching ==
  ~mw =>
    /\ counter = 0
    /\ temp = pre.temp
    /\ last.op = "atomic" =>
         /\ trace = <<Ev("warn", Root, RU, <<>>)>>
         /\ frames = pre.frames + 1
         /\ live = pre.live /\ notified = pre.notified
    /\ last.op = "return" =>
         /\ trace = <<>>
         /\ live = pre.live /\ notified = pre.notified
    /\ (WasSet /\ pre.frames > 0) =>
         /\ Count("commit") = 0
         /\ notified - pre.notified = Count("notify")
         /\ (live # pre.live) <=> (notified > pre.notified)
         /\ HookQuiet => notified <= pre.notified + 1
         /\ (HookQuiet /\ ~RecomputesSame) =>
              /\ notified = pre.notified + 1
              /\ ~SameContent(live, pre.live)

C35_Witness ==
  /\ ~mw /\ WasSet /\ pre.frames > 0 /\ ops = 3
  /\ \A s \in Scopes : hook[s] = "none"
  /\ W.scope = Nested /\ ~RecomputesSame
  /\ pre.notified = 1 /\ notified = 2
  /\ ~SameContent(live, pre.live)

\* C36: in a store without immer the state object the store held before a
\* set call has the content it had, read after the call, also when the
\* function given as the partial wrote to the same slice while it ran, and
\* the state of the store is never undefined.
C36_CommittedStateImmutable ==
  /\ live.t = "o"
  /\ last.op = "reentrant" => SameContent(last.snap, pre.live)

\* C37: in a store without immer every write through a setter whose value
\* carries [meta].postprocess calls the hook once, with replace = true and a
\* partial without [meta] too, and the value the write leaves still carries
\* the hook.
HookedWrite ==
  /\ WasSet /\ HookQuiet /\ ~immer
  /\ OldScoped.t = "o" /\ OwnPP.t = "m" /\ OwnPP.pp # "none"
C37_PostprocessOnEveryWrite ==
  HookedWrite =>
    /\ Cardinality(PPCalls) = 1
    /\ Field(NewScoped, MetaKey) = OwnPP

\* C38: a write through a setter is not applied when the setter hook of its
\* lens, of a lens around it or of the root returns without calling its
\* commit callback: the root updater is not run, the value get() returns has
\* the content it had, the real store's state has the content it had, and
\* without the atomic middleware the store is not touched at all.
SkipOnPath(w) ==
  \E i \in 1..Len(ChainUp(w.scope)) : hook[ChainUp(w.scope)[i]] = "skip"
C38_SkippedCommitAppliesNothing ==
  (WasSet /\ SkipOnPath(W)) =>
    /\ SameContent(NewScoped, OldScoped)
    /\ SameContent(Now, Before)
    /\ SameContent(live, pre.live)
    /\ Count("postprocess") = 0
    /\ ~mw => (live = pre.live /\ notified = pre.notified)
    /\ pre.frames > 0 => (live = pre.live /\ notified = pre.notified)

====
